---- MODULE Spec2Model ----
(***************************************************************************)
(* RoomDesigner: surface-aware furniture placement, the drag controller    *)
(* and the undo/redo command stack (furniture.js, undo.js, scene.js,       *)
(* modals.js).                                                             *)
(*                                                                         *)
(* Geometry is modelled exactly on a planar cross-section of the room:     *)
(* surface normals lie in the world XY plane and are given by integer      *)
(* direction vectors (the unit vector is the direction divided by its      *)
(* length); rotations are the rotations about the world Z axis, optionally *)
(* composed with a half-turn about an in-plane axis.  A rotation is the    *)
(* record [f, z]: it maps the in-plane vector c (as a complex number) to   *)
(* z*c when f = 0 and to z*(-conj c) when f = 1, and maps Z to Z or -Z.    *)
(* Every threshold of the code is evaluated in exact rational arithmetic.  *)
(***************************************************************************)
EXTENDS Integers, Sequences, FiniteSets, TLC

Null == "null"
\* the absent vector, screen point and scale
NoVec == <<>>

\* ------------------------------------------------------------------ bounds
MaxObjs == 3
MaxCmds == 2
MaxSamples == 1
MaxPending == 2
MaxHistCmds == 52
MaxSpawnSamples == 2
MaxPlaced == 1
Stock == 2
MaxModalDepth == 3

\* ------------------------------------------------------- program constants
maxHistory == 50
DRAG_THRESHOLD_PIXELS == 5
NORMAL_HISTORY_SIZE == 10
\* SURFACE_NORMAL_TOLERANCE = 0.966 as the fraction 966/1000
SURFACE_NORMAL_TOLERANCE == [num |-> 966, den |-> 1000]

\* ------------------------------------------------------------ integer math
Abs(x) == IF x < 0 THEN -x ELSE x

RECURSIVE Gcd(_, _)
Gcd(a, b) == IF b = 0 THEN a ELSE Gcd(b, a % b)

\* p/q < r/s for p, r >= 0 and q, s > 0, by the continued-fraction expansion
\* (no product is formed, so no intermediate value exceeds the inputs)
RECURSIVE FracLess(_, _, _, _)
FracLess(p, q, r, s) ==
  LET a == p \div q
      b == r \div s
      pr == p % q
      rr == r % s
  IN  IF a # b THEN a < b
      ELSE IF rr = 0 THEN FALSE
      ELSE IF pr = 0 THEN TRUE
      ELSE FracLess(s, rr, q, pr)

\* ------------------------------------------------------------------ vectors
\* a direction <<x, y, z>>; the model only uses directions that lie in the XY
\* plane (z = 0) or along the Z axis (x = y = 0)
Zero3 == <<0, 0, 0>>
Up == <<0, 1, 0>>

Dot(a, b) == a[1] * b[1] + a[2] * b[2] + a[3] * b[3]
Norm2(a) == Dot(a, a)
CrossZ(a, b) == a[1] * b[2] - a[2] * b[1]

\* Vector3.normalize / Quaternion.normalize: the same direction in lowest terms
Prim(v) ==
  LET g == Gcd(Gcd(Abs(v[1]), Abs(v[2])), Abs(v[3]))
  IN  IF g = 0 THEN Zero3 ELSE <<v[1] \div g, v[2] \div g, v[3] \div g>>

\* a tolerance test that accepts every normal
CosAny(a, b, t) == TRUE

\* cosine of the angle between directions a and b is at least num/den
CosAtLeast(a, b, t) ==
  /\ Dot(a, b) >= 0
  /\ ~FracLess(Dot(a, b) * Dot(a, b), Norm2(a) * Norm2(b), t.num * t.num, t.den * t.den)

\* sine of the angle between in-plane directions a and b is below 1/1000
SinBelowMilli(a, b) ==
  FracLess(CrossZ(a, b) * CrossZ(a, b), Norm2(a) * Norm2(b), 1, 1000000)

\* ---------------------------------------------------------------- rotations
Identity == [f |-> 0, z |-> <<1, 0>>]
NoRotation == [f |-> 9, z |-> <<0, 0>>]

CMul(a, b) == <<a[1] * b[1] - a[2] * b[2], a[1] * b[2] + a[2] * b[1]>>
CConj(a) == <<a[1], -a[2]>>
CPrim(a) == LET g == Gcd(Abs(a[1]), Abs(a[2])) IN <<a[1] \div g, a[2] \div g>>

\* Vector3.applyQuaternion, without normalising the length
ApplyRaw(r, v) ==
  LET c == IF r.f = 0 THEN <<v[1], v[2]>> ELSE <<-v[1], v[2]>>
      w == CMul(r.z, c)
  IN  IF v[1] = 0 /\ v[2] = 0
      THEN <<0, 0, IF r.f = 0 THEN v[3] ELSE -v[3]>>
      ELSE <<w[1], w[2], 0>>

applyQuaternion(r, v) == Prim(ApplyRaw(r, v))

\* Quaternion.premultiply by the rotation about Z that carries direction a to b
TurnZ(a, b) == CMul(<<b[1], b[2]>>, CConj(<<a[1], a[2]>>))
PremultiplyTurn(w, r) == [f |-> r.f, z |-> CPrim(CMul(w, r.z))]

\* Quaternion.premultiply by the half-turn about the in-plane axis n
PremultiplyHalfTurn(n, r) ==
  LET n2 == CMul(<<n[1], n[2]>>, <<n[1], n[2]>>)
      m == CMul(n2, CConj(r.z))
  IN  [f |-> 1 - r.f, z |-> CPrim(<<-m[1], -m[2]>>)]

\* Quaternion.setFromUnitVectors(a, b) premultiplied into r, for in-plane
\* directions: a turn about Z, or for opposite directions the half-turn about
\* the in-plane axis (-a.y, a.x, 0) that three.js picks
PremultiplyFromUnitVectors(a, b, r) ==
  IF CrossZ(a, b) = 0 /\ Dot(a, b) < 0 /\ a[1] # 0
  THEN PremultiplyHalfTurn(<<-a[2], a[1], 0>>, r)
  ELSE PremultiplyTurn(TurnZ(a, b), r)

\* a rotation outside the modelled group (a quarter turn about an in-plane axis)
OutOfPlane == [f |-> 2, z |-> <<1, 0>>]

\* ------------------------------------------------- furniture.js: geometry
CARDINAL_AXES ==
  << <<1, 0, 0>>, <<-1, 0, 0>>, <<0, 1, 0>>, <<0, -1, 0>>, <<0, 0, 1>>, <<0, 0, -1>> >>

DEFAULT_CONTACT_AXIS == <<0, 1, 0>>

\* dot product of the rotated local axis with the surface normal; the four
\* in-plane axes share the scale |z| and the two Z axes give 0 on an in-plane
\* normal, so the integers compare exactly as the code's floating dots do
AxisDot(quat, localAxis, surfaceNormal) == Dot(ApplyRaw(quat, localAxis), surfaceNormal)

RECURSIVE DetectFrom(_, _, _, _)
DetectFrom(i, best, quat, surfaceNormal) ==
  IF i > Len(CARDINAL_AXES) THEN best
  ELSE IF AxisDot(quat, CARDINAL_AXES[i], surfaceNormal) > AxisDot(quat, best, surfaceNormal)
       THEN DetectFrom(i + 1, CARDINAL_AXES[i], quat, surfaceNormal)
       ELSE DetectFrom(i + 1, best, quat, surfaceNormal)

\* a resolver that lets the last of several best axes win
RECURSIVE DetectLastFrom(_, _, _, _)
DetectLastFrom(i, best, quat, surfaceNormal) ==
  IF i > Len(CARDINAL_AXES) THEN best
  ELSE IF AxisDot(quat, CARDINAL_AXES[i], surfaceNormal) >= AxisDot(quat, best, surfaceNormal)
       THEN DetectLastFrom(i + 1, CARDINAL_AXES[i], quat, surfaceNormal)
       ELSE DetectLastFrom(i + 1, best, quat, surfaceNormal)

detectLastAxis(quat, surfaceNormal) ==
  DetectLastFrom(2, CARDINAL_AXES[1], quat, surfaceNormal)

\* a resolver that always answers the default axis
keepDefaultAxis(quat, surfaceNormal) == DEFAULT_CONTACT_AXIS

\* bestDot starts at -2, so the first axis always replaces the default
detectContactAxis(quat, surfaceNormal) ==
  DetectFrom(2, CARDINAL_AXES[1], quat, surfaceNormal)

\* an aligner that leaves the rotation as it is
alignNothing(quat, surfaceNormal, contactAxis) == quat

alignContactAxisToSurface(quat, surfaceNormal, contactAxis) ==
  LET currentWorldContactDir == applyQuaternion(quat, contactAxis)
  IN  IF currentWorldContactDir[3] # 0 \/ quat.f = 2 THEN OutOfPlane
      ELSE PremultiplyFromUnitVectors(currentWorldContactDir, surfaceNormal, quat)

\* a test that takes no surface for horizontal
NeverHorizontal(n) == FALSE

\* Math.abs(normal.y) > 0.9
NearHorizontal(n) == 100 * n[2] * n[2] > 81 * Norm2(n)

Sign(x) == IF x > 0 THEN 1 ELSE IF x < 0 THEN -1 ELSE 0

\* an upright correction that turns the model about the normal whenever the
\* surface is not horizontal
uprightAlwaysTurn(quat, surfaceNormal) ==
  IF quat.f = 2 \/ NearHorizontal(surfaceNormal) THEN quat
  ELSE PremultiplyHalfTurn(surfaceNormal, quat)

applyUprightCorrection(quat, surfaceNormal) ==
  LET modelY == ApplyRaw(quat, <<0, 1, 0>>)
      tangent == <<-surfaceNormal[2], surfaceNormal[1], 0>>
  IN  IF quat.f = 2 THEN quat
      ELSE IF NearHorizontal(surfaceNormal) THEN quat
      ELSE IF SinBelowMilli(Up, surfaceNormal) THEN quat
      ELSE IF SinBelowMilli(modelY, surfaceNormal) THEN quat
      \* both projections lie along the tangent: the angle is 0 or pi
      ELSE IF Sign(Dot(modelY, tangent)) = Sign(Dot(Up, tangent)) THEN quat
      ELSE PremultiplyHalfTurn(surfaceNormal, quat)

\* an aligner that skips the contact alignment
alignUprightOnly(quat, surfaceNormal, contactAxis) ==
  applyUprightCorrection(quat, surfaceNormal)

alignToSurface(quat, surfaceNormal, contactAxis) ==
  applyUprightCorrection(alignContactAxisToSurface(quat, surfaceNormal, contactAxis),
                         surfaceNormal)

\* unit normals of the room mesh have length 1 (cardinal) or 41/41
UnitScaled(d) == IF Norm2(d) = 1 THEN <<41 * d[1], 41 * d[2], 41 * d[3]>> ELSE d

RECURSIVE SumNormals(_)
SumNormals(h) ==
  IF h = <<>> THEN Zero3
  ELSE LET u == UnitScaled(Head(h))
           r == SumNormals(Tail(h))
       IN  <<u[1] + r[1], u[2] + r[2], u[3] + r[3]>>

\* a push that never drops the oldest normal
PushNormalUnbounded(history, normal) == Append(history, normal)

\* the history after the push (and the shift on overflow)
PushNormal(history, normal) ==
  LET h == Append(history, normal)
  IN  IF Len(h) > NORMAL_HISTORY_SIZE THEN Tail(h) ELSE h

\* the averaged, normalised normal addNormalToHistory returns
addNormalToHistory(history, normal) == Prim(SumNormals(PushNormal(history, normal)))

\* a position: the surface point pt moved along normal n by the bounding-box
\* offset of a model with rotation r (calculateBoundingBoxOffset); n = Zero3
\* is the bare point
NoPosition == [pt |-> Null, n |-> Zero3, r |-> Identity]
PointOnly(pt) == [pt |-> pt, n |-> Zero3, r |-> Identity]
OffsetAlong(pt, n, quat) == [pt |-> pt, n |-> n, r |-> quat]


\* -------------------------------------------------------------- environment
ObjNames == <<"m1", "m2", "m3", "m4">>
Objs == {ObjNames[i] : i \in 1..MaxObjs}
\* face normals of the room mesh besides the level floor (Up): a wall, and a
\* patch tilted by 12.7 degrees (cosine 40/41, inside the tolerance)
WallNormal == <<1, 0, 0>>
TiltNormal == <<9, 40, 0>>
\* a patch tilted by 12.7 degrees the other way: 25.4 degrees from TiltNormal
TiltBackNormal == <<-9, 40, 0>>
\* the ray misses the mesh
NoHit == [point |-> Null, normal |-> NoVec]

\* the mouse, the first touch (primary for its pointer type) and a second touch
Pointers == {"mouse", "touch1", "touch2"}
isPrimary(p) == p \in {"mouse", "touch1"}
ScreenPts == {<<0, 0>>, <<3, 4>>, <<6, 0>>}
\* where the pointer goes down
DownPts == {<<0, 0>>}
\* what the room mesh returns under a click on empty space
ClickHits == [point : {"a"}, normal : {Up, TiltNormal}]
\* what the room mesh returns under the pointer during a drag
DragHits == [point : {"b"}, normal : {TiltNormal, WallNormal}]

\* a threshold test that already fires at the threshold distance
PastThresholdInclusive(a, b) ==
  (b[1] - a[1]) * (b[1] - a[1]) + (b[2] - a[2]) * (b[2] - a[2])
    >= DRAG_THRESHOLD_PIXELS * DRAG_THRESHOLD_PIXELS

\* distance > DRAG_THRESHOLD_PIXELS, on the squares
PastThreshold(a, b) ==
  (b[1] - a[1]) * (b[1] - a[1]) + (b[2] - a[2]) * (b[2] - a[2])
    > DRAG_THRESHOLD_PIXELS * DRAG_THRESHOLD_PIXELS

Entries == {1}
\* the modals of the page
Modals == {"furniture-modal", "session-modal", "confirm-delete-modal", "calendar-modal"}
\* rotations and positions the user can reach with the transform gizmo
GizmoRotations == {Identity, [f |-> 0, z |-> <<0, 1>>]}
GizmoPositions == {PointOnly("g")}

\* -------------------------------------------------------------------- state
VARIABLES
  objs,                 \* model -> its transform and userData, NoObj before it is loaded
  scene,                \* the furniture children of the scene
  selectableObjects,    \* scene.js selectableObjects
  undoStack, redoStack, \* UndoManager
  nextCmdId,            \* identity of the next Command object constructed
  selectedObject, hoveredObject, isDragging, mouseDownPosition,
  dragStartPosition, activePointerId,
  drag,                 \* dragOffset, dragStartQuaternion, dragPlane,
                        \* spawnSurfaceNormal, lastValidPosition, lastValidNormal
  normalHistory,
  transformStart,       \* transformStartPosition / Rotation / Scale
  controls,             \* the TransformControls: object, mode, dragging
  lastClick,            \* lastClickPosition, lastClickSurfaceNormal
  activeModal,          \* modalManager.activeModal
  modalStack,           \* modalManager.modalStack
  hiddenModals,         \* the modals that carry the class modal-hidden
  pending,              \* placeFurniture calls suspended at an await
  catalog,              \* the furniture entries in the database
  loading               \* the saved records loadRoomById has yet to restore

pointerState == <<hoveredObject, isDragging, mouseDownPosition, dragStartPosition,
                  activePointerId, drag, normalHistory>>
vars == <<objs, scene, selectableObjects, undoStack, redoStack, nextCmdId,
          selectedObject, hoveredObject, isDragging, mouseDownPosition,
          dragStartPosition, activePointerId, drag, normalHistory,
          transformStart, controls, lastClick, activeModal, modalStack,
          hiddenModals, pending, catalog, loading>>
modalState == <<activeModal, modalStack, hiddenModals>>

NoTransform == [position |-> NoPosition, rotation |-> NoRotation, scale |-> NoVec]
NoObj == [position |-> NoPosition, rotation |-> NoRotation, scale |-> NoVec,
          surfaceNormal |-> NoVec, contactAxis |-> NoVec, entryId |-> 0,
          baseScale |-> NoVec]

Init ==
  /\ objs = [m \in Objs |-> NoObj]
  /\ scene = {}
  /\ selectableObjects = <<>>
  /\ undoStack = <<>>
  /\ redoStack = <<>>
  /\ nextCmdId = 1
  /\ selectedObject = Null
  /\ hoveredObject = Null
  /\ isDragging = FALSE
  /\ mouseDownPosition = NoVec
  /\ dragStartPosition = NoPosition
  /\ activePointerId = Null
  /\ drag = [dragOffset |-> <<PointOnly("origin"), Null>>, dragStartQuaternion |-> Identity,
             dragPlane |-> [normal |-> Zero3, point |-> Null],
             spawnSurfaceNormal |-> Up, lastValidPosition |-> PointOnly("origin"),
             lastValidNormal |-> Up]
  /\ normalHistory = <<>>
  /\ transformStart = NoTransform
  /\ controls = [object |-> Null, mode |-> "translate", dragging |-> FALSE]
  /\ lastClick = [position |-> Null, surfaceNormal |-> NoVec]
  /\ activeModal = Null
  /\ modalStack = <<>>
  /\ hiddenModals = Modals
  /\ pending = {}
  /\ catalog = Entries
  /\ loading = <<>>

\* ------------------------------------------------------- undo.js: commands
includes(seq, m) == \E i \in DOMAIN seq : seq[i] = m
\* a splice that removes nothing
RemoveNothing(seq, m) == seq
\* splice(indexOf(m), 1)
Remove(seq, m) ==
  IF ~includes(seq, m) THEN seq
  ELSE LET i == CHOOSE j \in DOMAIN seq : seq[j] = m /\ \A k \in 1..(j - 1) : seq[k] # m
       IN  SubSeq(seq, 1, i - 1) \o SubSeq(seq, i + 1, Len(seq))
Push(seq, m) == IF includes(seq, m) THEN seq ELSE Append(seq, m)

TransformOf(o) == [position |-> o.position, rotation |-> o.rotation, scale |-> o.scale]

PlaceFurnitureCommand(id, m, o) ==
  [kind |-> "Place", id |-> id, model |-> m, from |-> TransformOf(o[m]), to |-> NoTransform]
DeleteFurnitureCommand(id, m, o) ==
  [kind |-> "Delete", id |-> id, model |-> m, from |-> TransformOf(o[m]), to |-> NoTransform]
\* a Move command with its two positions exchanged
MoveCommandSwapped(id, m, fromPosition, toPosition) ==
  [kind |-> "Move", id |-> id, model |-> m,
   from |-> [NoTransform EXCEPT !.position = toPosition],
   to |-> [NoTransform EXCEPT !.position = fromPosition]]
MoveFurnitureCommand(id, m, fromPosition, toPosition) ==
  [kind |-> "Move", id |-> id, model |-> m,
   from |-> [NoTransform EXCEPT !.position = fromPosition],
   to |-> [NoTransform EXCEPT !.position = toPosition]]
RotateFurnitureCommand(id, m, fromRotation, toRotation) ==
  [kind |-> "Rotate", id |-> id, model |-> m,
   from |-> [NoTransform EXCEPT !.rotation = fromRotation],
   to |-> [NoTransform EXCEPT !.rotation = toRotation]]
ScaleFurnitureCommand(id, m, fromScale, toScale) ==
  [kind |-> "Scale", id |-> id, model |-> m,
   from |-> [NoTransform EXCEPT !.scale = fromScale],
   to |-> [NoTransform EXCEPT !.scale = toScale]]

\* a world is the record [objs, scene, sel]
World(o, sc, sel) == [objs |-> o, scene |-> sc, sel |-> sel]

\* the transform is copied back and the model is added to the scene and the list
Restore(c, w) ==
  [objs |-> [w.objs EXCEPT ![c.model].position = c.from.position,
                           ![c.model].rotation = c.from.rotation,
                           ![c.model].scale = c.from.scale],
   scene |-> w.scene \cup {c.model},
   sel |-> Push(w.sel, c.model)]

\* the model is removed from the scene and the list
Withdraw(c, w) ==
  [objs |-> w.objs, scene |-> w.scene \ {c.model}, sel |-> Remove(w.sel, c.model)]

CmdExecute(c, w) ==
  CASE c.kind = "Place" -> Restore(c, w)
    [] c.kind = "Delete" -> Withdraw(c, w)
    [] c.kind = "Move" -> [w EXCEPT !.objs[c.model].position = c.to.position]
    [] c.kind = "Rotate" -> [w EXCEPT !.objs[c.model].rotation = c.to.rotation]
    [] c.kind = "Scale" -> [w EXCEPT !.objs[c.model].scale = c.to.scale]

CmdUndo(c, w) ==
  CASE c.kind = "Place" -> Withdraw(c, w)
    [] c.kind = "Delete" -> Restore(c, w)
    [] c.kind = "Move" -> [w EXCEPT !.objs[c.model].position = c.from.position]
    [] c.kind = "Rotate" -> [w EXCEPT !.objs[c.model].rotation = c.from.rotation]
    [] c.kind = "Scale" -> [w EXCEPT !.objs[c.model].scale = c.from.scale]

\* ---------------------------------------------------- undo.js: UndoManager
\* a push that never shifts: what the history bound must reject
PushUnlimited(stack, c) == Append(stack, c)

\* push, then shift the oldest entry when the stack is over maxHistory
PushLimited(stack, c) ==
  LET s == Append(stack, c)
  IN  IF Len(s) > maxHistory THEN Tail(s) ELSE s

\* a record that keeps the redo stack: what "pushing clears redo" must reject
recordKeepingRedo(c) ==
  /\ undoStack' = PushLimited(undoStack, c)
  /\ redoStack' = redoStack
  /\ nextCmdId' = nextCmdId + 1

\* UndoManager.record: the undo stack, the redo stack
record(c) ==
  /\ undoStack' = PushLimited(undoStack, c)
  /\ redoStack' = <<>>
  /\ nextCmdId' = nextCmdId + 1

\* an execute that pushes without running the command
executeWithoutRunning(c, w) ==
  /\ objs' = w.objs
  /\ scene' = w.scene
  /\ selectableObjects' = w.sel
  /\ undoStack' = PushLimited(undoStack, c)
  /\ redoStack' = <<>>
  /\ nextCmdId' = nextCmdId + 1

\* UndoManager.execute on the world w: the command runs, then is pushed
execute(c, w) ==
  /\ LET after == CmdExecute(c, w)
     IN  /\ objs' = after.objs
         /\ scene' = after.scene
         /\ selectableObjects' = after.sel
  /\ undoStack' = PushLimited(undoStack, c)
  /\ redoStack' = <<>>
  /\ nextCmdId' = nextCmdId + 1


\* an undo that takes the oldest command instead of the most recent one
undoOldest ==
  IF undoStack = <<>>
  THEN UNCHANGED <<objs, scene, selectableObjects, undoStack, redoStack>>
  ELSE LET command == undoStack[1]
           after == CmdUndo(command, World(objs, scene, selectableObjects))
       IN  /\ objs' = after.objs
           /\ scene' = after.scene
           /\ selectableObjects' = after.sel
           /\ undoStack' = Tail(undoStack)
           /\ redoStack' = Append(redoStack, command)

\* UndoManager.undo
undo ==
  IF undoStack = <<>>
  THEN UNCHANGED <<objs, scene, selectableObjects, undoStack, redoStack>>
  ELSE LET command == undoStack[Len(undoStack)]
           after == CmdUndo(command, World(objs, scene, selectableObjects))
       IN  /\ objs' = after.objs
           /\ scene' = after.scene
           /\ selectableObjects' = after.sel
           /\ undoStack' = SubSeq(undoStack, 1, Len(undoStack) - 1)
           /\ redoStack' = Append(redoStack, command)

\* a redo that leaves the command on the redo stack
redoKeeping ==
  IF redoStack = <<>>
  THEN UNCHANGED <<objs, scene, selectableObjects, undoStack, redoStack>>
  ELSE LET command == redoStack[Len(redoStack)]
           after == CmdExecute(command, World(objs, scene, selectableObjects))
       IN  /\ objs' = after.objs
           /\ scene' = after.scene
           /\ selectableObjects' = after.sel
           /\ redoStack' = redoStack
           /\ undoStack' = Append(undoStack, command)

\* UndoManager.redo
redo ==
  IF redoStack = <<>>
  THEN UNCHANGED <<objs, scene, selectableObjects, undoStack, redoStack>>
  ELSE LET command == redoStack[Len(redoStack)]
           after == CmdExecute(command, World(objs, scene, selectableObjects))
       IN  /\ objs' = after.objs
           /\ scene' = after.scene
           /\ selectableObjects' = after.sel
           /\ redoStack' = SubSeq(redoStack, 1, Len(redoStack) - 1)
           /\ undoStack' = Append(undoStack, command)

\* ------------------------------------------- main.js: undo / redo handlers
UndoClick ==
  /\ undo
  /\ UNCHANGED <<nextCmdId, selectedObject, pointerState, transformStart, controls,
                 lastClick, modalState, pending, catalog, loading>>

RedoClick ==
  /\ redo
  /\ UNCHANGED <<nextCmdId, selectedObject, pointerState, transformStart, controls,
                 lastClick, modalState, pending, catalog, loading>>

\* ctrl+z, ctrl+shift+z, ctrl+y
UndoRedoKeys == {"z", "Z", "y"}

\* a key handler that does not look at the modal manager
OnUndoRedoKeyUngated(key) ==
  /\ IF key = "z" THEN undo ELSE redo
  /\ UNCHANGED <<nextCmdId, selectedObject, pointerState, transformStart, controls,
                 lastClick, modalState, pending, catalog, loading>>

OnUndoRedoKey(key) ==
  /\ IF activeModal # Null
     THEN UNCHANGED <<objs, scene, selectableObjects, undoStack, redoStack>>
     ELSE IF key = "z" THEN undo ELSE redo
  /\ UNCHANGED <<nextCmdId, selectedObject, pointerState, transformStart, controls,
                 lastClick, modalState, pending, catalog, loading>>

\* ---------------------------------------------------------------- modals.js
\* ModalManager.openModal: a different active modal is covered and goes on the
\* stack, the opened modal is shown and becomes active
openModal(modalId) ==
  /\ modalStack' = IF activeModal # Null /\ activeModal # modalId
                   THEN Append(modalStack, activeModal) ELSE modalStack
  /\ hiddenModals' = hiddenModals \ {modalId}
  /\ activeModal' = modalId

\* ModalManager.closeModal: the active modal is hidden and the modal on top of
\* the stack becomes active; the calendar alone on screen stays
closeModal ==
  IF activeModal = Null \/ (activeModal = "calendar-modal" /\ modalStack = <<>>)
  THEN UNCHANGED modalState
  ELSE /\ hiddenModals' = hiddenModals \cup {activeModal}
       /\ IF modalStack # <<>>
          THEN /\ activeModal' = modalStack[Len(modalStack)]
               /\ modalStack' = SubSeq(modalStack, 1, Len(modalStack) - 1)
          ELSE /\ activeModal' = Null
               /\ UNCHANGED modalStack

\* ModalManager.closeAllModals: the active modal and every modal popped from
\* the stack are hidden
closeAllModals ==
  /\ hiddenModals' = IF activeModal = Null THEN hiddenModals
                     ELSE hiddenModals \cup {activeModal}
                            \cup {modalStack[i] : i \in DOMAIN modalStack}
  /\ activeModal' = Null
  /\ modalStack' = <<>>

ModalManagerOnly ==
  UNCHANGED <<objs, scene, selectableObjects, undoStack, redoStack, nextCmdId,
              selectedObject, pointerState, transformStart, controls, lastClick,
              pending, catalog, loading>>

\* --------------------------------------------- furniture.js: selection
\* TransformControls.detach
Detached(c) == [c EXCEPT !.object = Null, !.dragging = FALSE]

deselectFurniture ==
  IF selectedObject = Null
  THEN UNCHANGED <<selectedObject, transformStart, controls>>
  ELSE /\ controls' = [Detached(controls) EXCEPT !.mode = "translate"]
       /\ selectedObject' = Null
       /\ transformStart' = NoTransform

\* a click handler that selects nothing
selectNothing(object, o) == UNCHANGED <<selectedObject, transformStart, controls>>

\* selectFurniture(object) on the transforms o
selectFurniture(object, o) ==
  IF selectedObject = object
  THEN /\ controls' = Detached(controls)
       /\ UNCHANGED <<selectedObject, transformStart>>
  ELSE /\ selectedObject' = object
       /\ controls' = IF selectedObject = Null THEN Detached(controls)
                      ELSE [Detached(controls) EXCEPT !.mode = "translate"]
       /\ transformStart' = TransformOf(o[object])

\* a reset that forgets to drop the target object
resetKeepingTarget ==
  /\ isDragging' = FALSE
  /\ mouseDownPosition' = NoVec
  /\ dragStartPosition' = NoPosition
  /\ activePointerId' = Null
  /\ normalHistory' = <<>>
  /\ hoveredObject' = hoveredObject

resetMouseState ==
  /\ isDragging' = FALSE
  /\ mouseDownPosition' = NoVec
  /\ dragStartPosition' = NoPosition
  /\ activePointerId' = Null
  /\ normalHistory' = <<>>
  /\ hoveredObject' = Null

\* ------------------------------------------ furniture.js: pointer handlers
\* scene.js raycastRoomSurface: the mesh hit, or the fallback floor plane
raycastRoomSurface(meshHit) ==
  IF meshHit # NoHit THEN meshHit ELSE [point |-> "a", normal |-> Up]

\* button is event.button (0 = left), hit the model raycastFurniture returns with
\* its hit point, meshHit what the room mesh returns for the pointer ray
onPointerDown(p, button, xy, hit, grab, meshHit) ==
  IF ~isPrimary(p) \/ (p = "mouse" /\ button # 0) \/ activeModal # Null
  THEN UNCHANGED vars
  ELSE
    /\ activePointerId' = p
    /\ mouseDownPosition' = xy
    /\ IF hit # Null
       THEN LET o == objs[hit]
                spawn == IF o.surfaceNormal # NoVec THEN o.surfaceNormal ELSE Up
            IN  /\ hoveredObject' = hit
                /\ dragStartPosition' = o.position
                /\ drag' = [dragOffset |-> <<o.position, grab>>,
                            dragStartQuaternion |-> o.rotation,
                            dragPlane |-> [normal |-> spawn, point |-> grab],
                            spawnSurfaceNormal |-> spawn,
                            lastValidPosition |-> o.position,
                            lastValidNormal |-> spawn]
                /\ normalHistory' = <<>>
                /\ objs' = IF o.surfaceNormal # NoVec
                           THEN [objs EXCEPT ![hit].contactAxis =
                                   detectContactAxis(o.rotation, o.surfaceNormal)]
                           ELSE objs
                /\ UNCHANGED lastClick
       ELSE LET surfaceHit == raycastRoomSurface(meshHit)
            IN  /\ lastClick' = [position |-> surfaceHit.point,
                                 surfaceNormal |-> surfaceHit.normal]
                /\ UNCHANGED <<hoveredObject, dragStartPosition, drag, normalHistory, objs>>
    /\ UNCHANGED <<scene, selectableObjects, undoStack, redoStack, nextCmdId,
                   selectedObject, isDragging, transformStart, controls,
                   modalState, pending, catalog, loading>>

\* a drag step that tests the hit normal against the last accepted normal
DragToLastValid(meshHit) ==
  LET o == objs[hoveredObject]
      spawn == drag.lastValidNormal
  IN  IF meshHit # NoHit /\ CosAtLeast(meshHit.normal, spawn, SURFACE_NORMAL_TOLERANCE)
      THEN LET smoothedNormal == addNormalToHistory(normalHistory, meshHit.normal)
               position == OffsetAlong(meshHit.point, smoothedNormal, o.rotation)
               contactAxis == IF o.contactAxis # NoVec THEN o.contactAxis
                              ELSE DEFAULT_CONTACT_AXIS
               rotation == applyUprightCorrection(
                             alignContactAxisToSurface(o.rotation, smoothedNormal, contactAxis),
                             smoothedNormal)
           IN  /\ normalHistory' = PushNormal(normalHistory, meshHit.normal)
               /\ objs' = [objs EXCEPT ![hoveredObject].position = position,
                                       ![hoveredObject].surfaceNormal = smoothedNormal,
                                       ![hoveredObject].rotation = rotation]
               /\ drag' = [drag EXCEPT !.lastValidPosition = position,
                                       !.lastValidNormal = smoothedNormal]
      ELSE /\ objs' = [objs EXCEPT ![hoveredObject].position = drag.lastValidPosition]
           /\ UNCHANGED <<normalHistory, drag>>

\* the body of the "continue dragging" branch for the surface ray result meshHit
DragTo(meshHit) ==
  LET o == objs[hoveredObject]
      spawn == drag.spawnSurfaceNormal
  IN  IF meshHit # NoHit /\ CosAtLeast(meshHit.normal, spawn, SURFACE_NORMAL_TOLERANCE)
      THEN LET smoothedNormal == addNormalToHistory(normalHistory, meshHit.normal)
               position == OffsetAlong(meshHit.point, smoothedNormal, o.rotation)
               contactAxis == IF o.contactAxis # NoVec THEN o.contactAxis
                              ELSE DEFAULT_CONTACT_AXIS
               rotation == applyUprightCorrection(
                             alignContactAxisToSurface(o.rotation, smoothedNormal, contactAxis),
                             smoothedNormal)
           IN  /\ normalHistory' = PushNormal(normalHistory, meshHit.normal)
               /\ objs' = [objs EXCEPT ![hoveredObject].position = position,
                                       ![hoveredObject].surfaceNormal = smoothedNormal,
                                       ![hoveredObject].rotation = rotation]
               /\ drag' = [drag EXCEPT !.lastValidPosition = position,
                                       !.lastValidNormal = smoothedNormal]
      ELSE /\ objs' = [objs EXCEPT ![hoveredObject].position = drag.lastValidPosition]
           /\ UNCHANGED <<normalHistory, drag>>

\* rayOk: the pointer ray meets the drag plane and a room mesh is loaded
onPointerMove(p, xy, rayOk, meshHit) ==
  IF \/ (activePointerId # Null /\ p # activePointerId)
     \/ mouseDownPosition = NoVec \/ hoveredObject = Null
     \/ activeModal # Null
  THEN UNCHANGED vars
  ELSE LET start == ~isDragging /\ PastThreshold(mouseDownPosition, xy)
       IN  IF start /\ controls.object = hoveredObject
           THEN UNCHANGED vars
           ELSE /\ isDragging' = (isDragging \/ start)
                /\ IF (isDragging \/ start) /\ rayOk
                   THEN DragTo(meshHit)
                   ELSE UNCHANGED <<objs, normalHistory, drag>>
                /\ UNCHANGED <<scene, selectableObjects, undoStack, redoStack, nextCmdId,
                               selectedObject, hoveredObject, mouseDownPosition,
                               dragStartPosition, activePointerId, transformStart,
                               controls, lastClick, modalState, pending, catalog, loading>>

\* lighting: isLightingDirectionMode()
onPointerUp(p, xy, lighting) ==
  IF activePointerId # Null /\ p # activePointerId
  THEN UNCHANGED vars
  ELSE IF activeModal # Null
  THEN /\ resetMouseState
       /\ UNCHANGED <<objs, scene, selectableObjects, undoStack, redoStack, nextCmdId,
                      selectedObject, drag, transformStart, controls, lastClick,
                      modalState, pending, catalog, loading>>
  ELSE
    /\ resetMouseState
    /\ IF isDragging /\ hoveredObject # Null /\ dragStartPosition # NoPosition
       THEN /\ IF dragStartPosition # objs[hoveredObject].position
               THEN record(MoveFurnitureCommand(nextCmdId, hoveredObject, dragStartPosition,
                                                objs[hoveredObject].position))
               ELSE UNCHANGED <<undoStack, redoStack, nextCmdId>>
            /\ UNCHANGED <<selectedObject, transformStart, controls, modalState>>
       ELSE IF hoveredObject # Null /\ mouseDownPosition # NoVec
       THEN /\ IF ~PastThreshold(mouseDownPosition, xy)
               THEN selectFurniture(hoveredObject, objs)
               ELSE UNCHANGED <<selectedObject, transformStart, controls>>
            /\ UNCHANGED <<undoStack, redoStack, nextCmdId, modalState>>
       ELSE IF hoveredObject = Null /\ mouseDownPosition # NoVec
       THEN /\ IF ~PastThreshold(mouseDownPosition, xy)
               THEN IF selectedObject # Null
                    THEN deselectFurniture /\ UNCHANGED modalState
                    ELSE /\ IF lighting THEN UNCHANGED modalState
                            ELSE openModal("furniture-modal")
                         /\ UNCHANGED <<selectedObject, transformStart, controls>>
               ELSE UNCHANGED <<selectedObject, transformStart, controls, modalState>>
            /\ UNCHANGED <<undoStack, redoStack, nextCmdId>>
       ELSE UNCHANGED <<undoStack, redoStack, nextCmdId, selectedObject, transformStart,
                        controls, modalState>>
    /\ UNCHANGED <<objs, scene, selectableObjects, drag, lastClick, pending, catalog, loading>>

onPointerCancel(p) ==
  IF activePointerId # Null /\ p # activePointerId
  THEN UNCHANGED vars
  ELSE /\ resetMouseState
       /\ UNCHANGED <<objs, scene, selectableObjects, undoStack, redoStack, nextCmdId,
                      selectedObject, drag, transformStart, controls, lastClick,
                      modalState, pending, catalog, loading>>


\* ------------------------------------- furniture.js: gizmo menu, keyboard
deleteSelectedFurniture ==
  IF selectedObject = Null
  THEN UNCHANGED <<objs, scene, selectableObjects, undoStack, redoStack, nextCmdId,
                   selectedObject, transformStart, controls>>
  ELSE /\ execute(DeleteFurnitureCommand(nextCmdId, selectedObject, objs),
                  World(objs, scene, selectableObjects))
       /\ deselectFurniture

\* attach(selectedObject); setMode(mode)
AttachControls(mode) ==
  IF selectedObject # Null
  THEN controls' = [controls EXCEPT !.object = selectedObject, !.mode = mode]
  ELSE UNCHANGED controls

\* the drag and rotate buttons of the gizmo menu
GizmoModeButton(mode) ==
  /\ AttachControls(mode)
  /\ UNCHANGED <<objs, scene, selectableObjects, undoStack, redoStack, nextCmdId,
                 selectedObject, pointerState, transformStart, lastClick,
                 modalState, pending, catalog, loading>>

GizmoDeleteButton ==
  /\ deleteSelectedFurniture
  /\ UNCHANGED <<pointerState, lastClick, modalState, pending, catalog, loading>>

Keys == {"g", "r", "delete", "escape"}

onKeyDown(key) ==
  IF activeModal # Null THEN UNCHANGED vars
  ELSE
    /\ CASE key = "g" ->
              /\ AttachControls("translate")
              /\ UNCHANGED <<objs, scene, selectableObjects, undoStack, redoStack,
                             nextCmdId, selectedObject, transformStart>>
         [] key = "r" ->
              /\ AttachControls("rotate")
              /\ UNCHANGED <<objs, scene, selectableObjects, undoStack, redoStack,
                             nextCmdId, selectedObject, transformStart>>
         [] key = "delete" -> deleteSelectedFurniture
         [] key = "escape" ->
              /\ deselectFurniture
              /\ UNCHANGED <<objs, scene, selectableObjects, undoStack, redoStack, nextCmdId>>
    /\ UNCHANGED <<pointerState, lastClick, modalState, pending, catalog, loading>>

\* ------------------------------- furniture.js: TransformControls listeners
ControlsMouseDown ==
  /\ controls.object # Null
  /\ ~controls.dragging
  /\ controls' = [controls EXCEPT !.dragging = TRUE]
  /\ transformStart' = IF selectedObject # Null THEN TransformOf(objs[selectedObject])
                       ELSE transformStart
  /\ UNCHANGED <<objs, scene, selectableObjects, undoStack, redoStack, nextCmdId,
                 selectedObject, pointerState, lastClick, modalState, pending, catalog, loading>>

\* the gizmo writes the attached object while it is dragged
ControlsChange(position, rotation) ==
  /\ controls.object # Null
  /\ controls.dragging
  /\ objs' = IF controls.mode = "translate"
             THEN [objs EXCEPT ![controls.object].position = position]
             ELSE [objs EXCEPT ![controls.object].rotation = rotation]
  /\ UNCHANGED <<scene, selectableObjects, undoStack, redoStack, nextCmdId,
                 selectedObject, pointerState, transformStart, controls, lastClick,
                 modalState, pending, catalog, loading>>

ControlsMouseUp ==
  /\ controls.object # Null
  /\ controls.dragging
  /\ controls' = [controls EXCEPT !.dragging = FALSE]
  /\ IF selectedObject # Null /\ transformStart.position # NoPosition
     THEN LET o == objs[selectedObject]
          IN  IF controls.mode = "translate" /\ transformStart.position # o.position
              THEN record(MoveFurnitureCommand(nextCmdId, selectedObject,
                                               transformStart.position, o.position))
              ELSE IF controls.mode = "rotate" /\ transformStart.rotation # o.rotation
              THEN record(RotateFurnitureCommand(nextCmdId, selectedObject,
                                                 transformStart.rotation, o.rotation))
              ELSE UNCHANGED <<undoStack, redoStack, nextCmdId>>
     ELSE UNCHANGED <<undoStack, redoStack, nextCmdId>>
  /\ UNCHANGED <<objs, scene, selectableObjects, selectedObject, pointerState,
                 transformStart, lastClick, modalState, pending, catalog, loading>>

\* ----------------------------------------- main.js / furniture.js: placing
\* main.js getPlacedCountForEntry: the records collectPlacedFurniture writes
\* for the entry, one for each selectable model that carries the entry's id
getPlacedCountForEntry(entryId) ==
  Cardinality({i \in DOMAIN selectableObjects :
                 objs[selectableObjects[i]].entryId = entryId})

\* api.js getBatchAvailability for one entry: the count the server reports
\* less the instances placed in the scene, never below 0
getBatchAvailability(entryId, placedInScene) ==
  IF Stock - placedInScene > 0 THEN Stock - placedInScene ELSE 0

\* placeEntryInScene up to the first await of placeFurniture: the entry is
\* available, the click position is read and the call suspends
placeEntryInScene(entryId) ==
  /\ activeModal = "furniture-modal"
  /\ entryId \in catalog
  /\ Cardinality(pending) < MaxPending
  /\ getBatchAvailability(entryId, getPlacedCountForEntry(entryId)) > 0
  /\ LET call == CHOOSE n \in 1..MaxPending : \A c \in pending : c.call # n
     IN  pending' = pending \cup {[call |-> call, entryId |-> entryId,
                                   position |-> lastClick.position]}
  /\ UNCHANGED <<objs, scene, selectableObjects, undoStack, redoStack, nextCmdId,
                 selectedObject, pointerState, transformStart, controls, lastClick,
                 modalState, catalog, loading>>

\* a failure that is noticed only after the command stacks were reset
placeFurnitureFailsLate(call) ==
  /\ call \in pending
  /\ pending' = pending \ {call}
  /\ undoStack' = <<>>
  /\ redoStack' = <<>>
  /\ UNCHANGED <<objs, scene, selectableObjects, nextCmdId,
                 selectedObject, pointerState, transformStart, controls, lastClick,
                 modalState, catalog, loading>>

\* the entry is missing or has no model: placeFurniture throws
placeFurnitureFails(call) ==
  /\ call \in pending
  /\ pending' = pending \ {call}
  /\ UNCHANGED <<objs, scene, selectableObjects, undoStack, redoStack, nextCmdId,
                 selectedObject, pointerState, transformStart, controls, lastClick,
                 modalState, catalog, loading>>

\* placeFurniture after its awaits, then placeEntryInScene's closeModal
placeFurniture(call) ==
  /\ call \in pending
  /\ call.entryId \in catalog
  /\ \E m \in Objs : objs[m] = NoObj
  /\ LET first == CHOOSE i \in 1..MaxObjs :
                     /\ objs[ObjNames[i]] = NoObj
                     /\ \A k \in 1..(i - 1) : objs[ObjNames[k]] # NoObj
         model == ObjNames[first]
         normal == IF lastClick.surfaceNormal # NoVec THEN lastClick.surfaceNormal ELSE Up
         \* the offset position is overwritten by addFurnitureToScene
         position == IF call.position # Null THEN PointOnly(call.position)
                     ELSE PointOnly("origin")
         loaded == [position |-> position, rotation |-> Identity, scale |-> <<1, 1, 1>>,
                    surfaceNormal |-> normal,
                    contactAxis |-> detectContactAxis(Identity, normal),
                    entryId |-> call.entryId,
                    baseScale |-> <<1, 1, 1>>]
         o == [objs EXCEPT ![model] = loaded]
     IN  /\ objs' = o
         /\ scene' = scene \cup {model}
         /\ selectableObjects' = Append(selectableObjects, model)
         /\ record(PlaceFurnitureCommand(nextCmdId, model, o))
  /\ pending' = pending \ {call}
  /\ closeModal
  /\ UNCHANGED <<catalog, loading>>
  /\ UNCHANGED <<selectedObject, pointerState, transformStart, controls, lastClick>>

\* furniture.js removeAllFurnitureByEntryId: removeFurnitureFromScene for every
\* selectable model of the entry (with the gizmo detached from it), then the
\* selection is dropped when the selected model was among them
removeAllFurnitureByEntryId(entryId) ==
  LET toRemove == {selectableObjects[i] : i \in {j \in DOMAIN selectableObjects :
                                                  objs[selectableObjects[j]].entryId = entryId}}
      IsKept(m) == m \notin toRemove
      detached == IF controls.object \in toRemove THEN Detached(controls) ELSE controls
  IN  /\ scene' = scene \ toRemove
      /\ selectableObjects' = SelectSeq(selectableObjects, IsKept)
      /\ IF selectedObject # Null /\ selectedObject \in toRemove
         THEN /\ controls' = [Detached(detached) EXCEPT !.mode = "translate"]
              /\ selectedObject' = Null
              /\ transformStart' = NoTransform
         ELSE /\ controls' = detached
              /\ UNCHANGED <<selectedObject, transformStart>>

\* main.js confirmDeleteEntry, the confirm button of the dialog over the
\* furniture modal: the entry leaves the database, the placed instances go,
\* the dialog closes
confirmDeleteEntry(entryId) ==
  /\ activeModal = "furniture-modal"
  /\ entryId \in catalog
  /\ catalog' = catalog \ {entryId}
  /\ removeAllFurnitureByEntryId(entryId)
  /\ UNCHANGED <<objs, undoStack, redoStack, nextCmdId, pointerState, lastClick,
                 modalState, pending, loading>>

\* ------------------------------------------------------------ specification
Hittable == {selectableObjects[i] : i \in DOMAIN selectableObjects}

\* the inputs of one event are enumerated without the combinations the handler
\* cannot tell apart (the mesh hit under a pointer that hit furniture, the
\* button of a touch, the surface ray of a move that casts none)
PointerDown ==
  \E p \in Pointers, button \in {0, 2}, xy \in DownPts :
    /\ button = 2 => p = "mouse"
    /\ \/ \E hit \in Hittable : onPointerDown(p, button, xy, hit, "a", NoHit)
       \/ \E meshHit \in ClickHits : onPointerDown(p, button, xy, Null, "a", meshHit)

PointerMove ==
  /\ Len(normalHistory) < MaxSamples
  /\ \E p \in Pointers, xy \in ScreenPts :
       \/ onPointerMove(p, xy, FALSE, NoHit)
       \/ \E meshHit \in DragHits \cup {NoHit} : onPointerMove(p, xy, TRUE, meshHit)

PointerUp ==
  /\ nextCmdId <= MaxCmds
  /\ \E p \in Pointers, xy \in ScreenPts, lighting \in BOOLEAN : onPointerUp(p, xy, lighting)

PointerCancel == \E p \in Pointers : onPointerCancel(p)

KeyDown == nextCmdId <= MaxCmds /\ \E key \in Keys : onKeyDown(key)

UndoRedoKey == \E key \in UndoRedoKeys : OnUndoRedoKey(key)

GizmoMode == \E mode \in {"translate", "rotate"} : GizmoModeButton(mode)

GizmoDelete == nextCmdId <= MaxCmds /\ GizmoDeleteButton

GizmoDrag == \E position \in GizmoPositions, rotation \in GizmoRotations :
               ControlsChange(position, rotation)

GizmoUp == nextCmdId <= MaxCmds /\ ControlsMouseUp

\* the session button of the toolbar, which the open modal covers
OpenModal == activeModal = Null /\ openModal("session-modal") /\ ModalManagerOnly

\* a click outside the content of the active modal, or its close button
CloseModal == activeModal # Null /\ closeModal /\ ModalManagerOnly

\* the entry is clicked once
PlaceBegin == pending = {} /\ \E entryId \in Entries : placeEntryInScene(entryId)

PlaceFail == \E call \in pending : placeFurnitureFails(call)

Loaded == {m \in Objs : objs[m] # NoObj}

PlaceDone ==
  /\ nextCmdId <= MaxCmds
  /\ Cardinality(Loaded) < MaxPlaced
  /\ \E call \in pending : placeFurniture(call)

\* the drag controller: placing, the pointer handlers, modals, undo and redo
Next ==
  \/ PointerDown
  \/ PointerMove
  \/ PointerUp
  \/ PointerCancel
  \/ UndoRedoKey
  \/ UndoClick
  \/ RedoClick
  \/ OpenModal
  \/ CloseModal
  \/ PlaceBegin
  \/ PlaceFail
  \/ PlaceDone

Spec == Init /\ [][Next]_vars

\* the command stack: placing, selection by click, the gizmo, deletion, undo
\* and redo; the pointer never moves between down and up
NextCmd ==
  \/ PointerDown
  \/ PointerUp
  \/ KeyDown
  \/ UndoRedoKey
  \/ UndoClick
  \/ RedoClick
  \/ GizmoMode
  \/ GizmoDelete
  \/ ControlsMouseDown
  \/ GizmoDrag
  \/ GizmoUp
  \/ CloseModal
  \/ PlaceBegin
  \/ PlaceDone

SpecCmd == Init /\ [][NextCmd]_vars

\* a long session: one model placed, then turned with the gizmo over and over;
\* undo and redo once the history is nearly full
\* the one mouse is on the gizmo while the gizmo is dragged
HistPointerDown ==
  /\ ~controls.dragging
  /\ \/ \E hit \in Hittable : onPointerDown("mouse", 0, <<0, 0>>, hit, "a", NoHit)
     \/ onPointerDown("mouse", 0, <<0, 0>>, Null, "a", [point |-> "a", normal |-> Up])

HistPointerUp == onPointerUp("mouse", <<0, 0>>, FALSE)

HistRotateButton == GizmoModeButton("rotate")

HistControlsDown == activePointerId = Null /\ ControlsMouseDown

HistGizmoDrag == \E rotation \in GizmoRotations : ControlsChange(NoPosition, rotation)

HistGizmoUp == nextCmdId <= MaxHistCmds /\ ControlsMouseUp

\* the session places one model
HistPlaceDone ==
  /\ nextCmdId <= MaxHistCmds
  /\ \A m \in Objs : objs[m] = NoObj
  /\ \E call \in pending : placeFurniture(call)

HistUndo == Len(undoStack) + 1 >= maxHistory /\ UndoClick

HistRedo == redoStack # <<>> /\ RedoClick

NextHist ==
  \/ HistPointerDown
  \/ HistPointerUp
  \/ HistRotateButton
  \/ HistControlsDown
  \/ HistGizmoDrag
  \/ HistGizmoUp
  \/ PlaceBegin
  \/ HistPlaceDone
  \/ HistUndo
  \/ HistRedo

SpecHist == Init /\ [][NextHist]_vars

\* a long drag over the floor: one model placed on the level floor, grabbed
\* there and dragged with the mouse over the level floor and the tilted patch,
\* every move past the threshold and onto an accepted surface
SmoothHits == [point : {"b"}, normal : {Up, TiltNormal}]

\* the level floor is clicked to place the model
SmoothClick ==
  /\ \A m \in Objs : objs[m] = NoObj
  /\ onPointerDown("mouse", 0, <<0, 0>>, Null, "a", [point |-> "a", normal |-> Up])

\* the model is grabbed while it stands on the level floor, until a drag of
\* it has been recorded
SmoothGrab ==
  \E hit \in Hittable :
    /\ objs[hit].surfaceNormal = Up
    /\ \A i \in DOMAIN undoStack : undoStack[i].kind = "Place"
    /\ onPointerDown("mouse", 0, <<0, 0>>, hit, "a", NoHit)

SmoothMove == \E meshHit \in SmoothHits : onPointerMove("mouse", <<6, 0>>, TRUE, meshHit)

SmoothPointerUp == \E xy \in {<<0, 0>>, <<6, 0>>} : onPointerUp("mouse", xy, FALSE)

SmoothCancel == onPointerCancel("mouse")

\* the session places one model
SmoothPlaceDone ==
  /\ \A m \in Objs : objs[m] = NoObj
  /\ \E call \in pending : placeFurniture(call)

NextSmooth ==
  \/ SmoothClick
  \/ SmoothGrab
  \/ SmoothMove
  \/ SmoothPointerUp
  \/ SmoothCancel
  \/ PlaceBegin
  \/ SmoothPlaceDone

SpecSmooth == Init /\ [][NextSmooth]_vars

\* a drag across the level floor, two patches tilted opposite ways and a
\* wall: one model placed
\* on the level floor, grabbed and dragged with the mouse, every move past the
\* threshold; the model is grabbed again where an earlier drag left it
SpawnHits == [point : {"b"}, normal : {Up, TiltNormal, TiltBackNormal, WallNormal}]

\* the model is grabbed while it stands on the level floor or on the first
\* tilted patch
SpawnGrab ==
  \E hit \in Hittable :
    /\ objs[hit].surfaceNormal \in {Up, TiltNormal}
    /\ onPointerDown("mouse", 0, <<0, 0>>, hit, "a", NoHit)

SpawnMove ==
  /\ Len(normalHistory) < MaxSpawnSamples
  /\ \E meshHit \in SpawnHits \cup {NoHit} : onPointerMove("mouse", <<6, 0>>, TRUE, meshHit)

SpawnPointerUp ==
  /\ nextCmdId <= MaxCmds
  /\ \E xy \in {<<0, 0>>, <<6, 0>>} : onPointerUp("mouse", xy, FALSE)

NextSpawn ==
  \/ SmoothClick
  \/ SpawnGrab
  \/ SpawnMove
  \/ SpawnPointerUp
  \/ SmoothCancel
  \/ PlaceBegin
  \/ SmoothPlaceDone

SpecSpawn == Init /\ [][NextSpawn]_vars

\* the selectable set: placing, selection by click, deletion by key and by the
\* gizmo menu, deletion of the catalog entry, undo and redo
DeleteEntry == \E entryId \in Entries : confirmDeleteEntry(entryId)

NextSel ==
  \/ PointerDown
  \/ PointerUp
  \/ KeyDown
  \/ GizmoDelete
  \/ UndoRedoKey
  \/ UndoClick
  \/ RedoClick
  \/ CloseModal
  \/ PlaceBegin
  \/ PlaceDone
  \/ DeleteEntry

SpecSel == Init /\ [][NextSel]_vars

\* placing on every kind of surface: the floor, a wall, the ceiling or the
\* tilted patch is clicked, or the click ray misses the room mesh; the
\* furniture modal opens and an entry is placed;
\* the placed model is clicked, the placement undone and redone
PlaceHits ==
  [point : {"a"}, normal : {Up, WallNormal, <<0, -1, 0>>, TiltNormal}] \cup {NoHit}

PlaceClick ==
  \E p \in {"mouse", "touch1"}, meshHit \in PlaceHits :
    onPointerDown(p, 0, <<0, 0>>, Null, "a", meshHit)

PlaceGrab == \E hit \in Hittable : onPointerDown("mouse", 0, <<0, 0>>, hit, "a", NoHit)

PlacePointerUp ==
  \E p \in {"mouse", "touch1"}, xy \in {<<0, 0>>, <<6, 0>>} : onPointerUp(p, xy, FALSE)

NextPlace ==
  \/ PlaceClick
  \/ PlaceGrab
  \/ PlacePointerUp
  \/ PlaceBegin
  \/ PlaceFail
  \/ PlaceDone
  \/ CloseModal
  \/ UndoClick
  \/ RedoClick

SpecPlace == Init /\ [][NextPlace]_vars

\* the aligner and the resolver on a restored room: one model loaded with a
\* saved rotation, surface normal and contact axis; the aligner, the upright
\* correction and the resolver are applied to it with its stored normal and axis
AlignRotations ==
  {[f |-> f, z |-> z] : f \in {0, 1}, z \in {<<1, 0>>, <<0, 1>>, <<-1, 0>>, <<0, -1>>}}
    \cup {[f |-> 0, z |-> <<40, -9>>]}

\* floor, ceiling, two walls, the tilted patch, a 45 degree and a 53 degree slope
AlignNormals ==
  {Up, <<0, -1, 0>>, WallNormal, <<-1, 0, 0>>, TiltNormal, <<1, 1, 0>>, <<3, 4, 0>>}

Restored(rotation, surfaceNormal, contactAxis) ==
  [position |-> PointOnly("a"), rotation |-> rotation, scale |-> <<1, 1, 1>>,
   surfaceNormal |-> surfaceNormal, contactAxis |-> contactAxis, entryId |-> 1,
   baseScale |-> <<1, 1, 1>>]

InitRestored ==
  /\ \E rotation \in AlignRotations, surfaceNormal \in AlignNormals,
        i \in DOMAIN CARDINAL_AXES :
       objs = [m \in Objs |-> IF m = ObjNames[1]
                               THEN Restored(rotation, surfaceNormal, CARDINAL_AXES[i])
                               ELSE NoObj]
  /\ scene = {ObjNames[1]}
  /\ selectableObjects = <<ObjNames[1]>>
  /\ undoStack = <<>>
  /\ redoStack = <<>>
  /\ nextCmdId = 1
  /\ selectedObject = Null
  /\ hoveredObject = Null
  /\ isDragging = FALSE
  /\ mouseDownPosition = NoVec
  /\ dragStartPosition = NoPosition
  /\ activePointerId = Null
  /\ drag = [dragOffset |-> <<PointOnly("origin"), Null>>, dragStartQuaternion |-> Identity,
             dragPlane |-> [normal |-> Zero3, point |-> Null],
             spawnSurfaceNormal |-> Up, lastValidPosition |-> PointOnly("origin"),
             lastValidNormal |-> Up]
  /\ normalHistory = <<>>
  /\ transformStart = NoTransform
  /\ controls = [object |-> Null, mode |-> "translate", dragging |-> FALSE]
  /\ lastClick = [position |-> Null, surfaceNormal |-> NoVec]
  /\ activeModal = Null
  /\ modalStack = <<>>
  /\ hiddenModals = Modals
  /\ pending = {}
  /\ catalog = Entries
  /\ loading = <<>>

\* the model is loaded and its rotation is one the model represents
Alignable(m) == objs[m] # NoObj /\ objs[m].rotation.f # OutOfPlane.f

\* alignToSurface(model, model.userData.surfaceNormal, model.userData.contactAxis)
AlignCall(m) ==
  /\ Alignable(m)
  /\ objs' = [objs EXCEPT ![m].rotation =
                alignToSurface(objs[m].rotation, objs[m].surfaceNormal, objs[m].contactAxis)]
  /\ UNCHANGED <<scene, selectableObjects, undoStack, redoStack, nextCmdId,
                 selectedObject, pointerState, transformStart, controls, lastClick,
                 modalState, pending, catalog, loading>>

\* applyUprightCorrection(model, model.userData.surfaceNormal)
UprightCall(m) ==
  /\ Alignable(m)
  /\ objs' = [objs EXCEPT ![m].rotation =
                applyUprightCorrection(objs[m].rotation, objs[m].surfaceNormal)]
  /\ UNCHANGED <<scene, selectableObjects, undoStack, redoStack, nextCmdId,
                 selectedObject, pointerState, transformStart, controls, lastClick,
                 modalState, pending, catalog, loading>>

\* model.userData.contactAxis = detectContactAxis(model, model.userData.surfaceNormal)
DetectCall(m) ==
  /\ Alignable(m)
  /\ objs' = [objs EXCEPT ![m].contactAxis =
                detectContactAxis(objs[m].rotation, objs[m].surfaceNormal)]
  /\ UNCHANGED <<scene, selectableObjects, undoStack, redoStack, nextCmdId,
                 selectedObject, pointerState, transformStart, controls, lastClick,
                 modalState, pending, catalog, loading>>

Align == \E m \in Objs : AlignCall(m)

Upright == \E m \in Objs : UprightCall(m)

Detect == \E m \in Objs : DetectCall(m)

NextAlign ==
  \/ Align
  \/ Upright
  \/ Detect

SpecAlign == InitRestored /\ [][NextAlign]_vars

\* ------------------------------------ scene.js / main.js: saving and loading
\* Euler.setFromQuaternion, order XYZ: a turn about Z has the angles (0, 0, c);
\* a flipped rotation, the half-turn about Y followed by the turn z about Z,
\* has the angles (pi, 0, c) with the direction of c = -conj(z).  x counts
\* half-turns about X, z is the direction of the angle about Z
setFromQuaternion(q) ==
  IF q.f = 1 THEN [x |-> 1, z |-> <<-q.z[1], q.z[2]>>]
  ELSE [x |-> IF q.f = 0 THEN 0 ELSE q.f, z |-> q.z]

\* Quaternion.setFromEuler, order XYZ: Rx(x) Rz(z)
setFromEuler(e) ==
  IF e.x = 1 THEN [f |-> 1, z |-> CPrim(<<-e.z[1], e.z[2]>>)]
  ELSE [f |-> IF e.x = 0 THEN 0 ELSE e.x, z |-> e.z]

\* the record collectPlacedFurniture writes for model data o; the optional
\* fields are absent (NoVec) when the model has none
FurnitureData(o) ==
  [entryId |-> o.entryId, position |-> o.position,
   rotation |-> setFromQuaternion(o.rotation), scale |-> o.scale,
   surfaceNormal |-> o.surfaceNormal, contactAxis |-> o.contactAxis,
   baseScale |-> o.baseScale]

collectPlacedFurniture ==
  LET IsFurniture(m) == objs[m].entryId # 0
      placed == SelectSeq(selectableObjects, IsFurniture)
  IN  [i \in DOMAIN placed |-> FurnitureData(objs[placed[i]])]

\* a restore that runs the aligner on the restored rotation
RestoredModelAligned(furniture) ==
  [position |-> furniture.position,
   rotation |-> IF furniture.surfaceNormal # NoVec /\ furniture.contactAxis # NoVec
                THEN alignToSurface(setFromEuler(furniture.rotation),
                                    furniture.surfaceNormal, furniture.contactAxis)
                ELSE setFromEuler(furniture.rotation),
   scale |-> furniture.scale,
   surfaceNormal |-> furniture.surfaceNormal, contactAxis |-> furniture.contactAxis,
   entryId |-> furniture.entryId, baseScale |-> furniture.baseScale]

\* the freshly loaded model after loadRoomById has set its transform and its
\* userData from the saved record
RestoredModel(furniture) ==
  [position |-> furniture.position, rotation |-> setFromEuler(furniture.rotation),
   scale |-> furniture.scale,
   surfaceNormal |-> furniture.surfaceNormal, contactAxis |-> furniture.contactAxis,
   entryId |-> furniture.entryId, baseScale |-> furniture.baseScale]

\* applyRoomScaleToAllFurniture at the room scale of the session, 1
applyRoomScale(o) == IF o.baseScale # NoVec THEN [o EXCEPT !.scale = o.baseScale] ELSE o

\* the models and the selectable list after loadRoomById has restored the
\* saved list room; records whose entry is in missing (no entry or no model in
\* the catalog) are skipped
Reloaded(room, missing) ==
  LET HasModel(furniture) == furniture.entryId \notin missing
      kept == SelectSeq(room, HasModel)
  IN  [objs |-> [m \in Objs |->
                  IF \E k \in DOMAIN kept : ObjNames[k] = m
                  THEN applyRoomScale(RestoredModel(
                         kept[CHOOSE k \in DOMAIN kept : ObjNames[k] = m]))
                  ELSE NoObj],
       sel |-> [k \in DOMAIN kept |-> ObjNames[k]]]

\* main.js loadRoomById from the furniture on: clearAllFurniture,
\* undoManager.clear, the saved models restored, the room scale applied,
\* deselectFurniture
loadRoomById(room, missing) ==
  LET after == Reloaded(room, missing)
  IN  /\ objs' = after.objs
      /\ selectableObjects' = after.sel
      /\ scene' = {after.sel[k] : k \in DOMAIN after.sel}
      /\ undoStack' = <<>>
      /\ redoStack' = <<>>
      /\ selectedObject' = Null
      /\ transformStart' = IF selectedObject # Null THEN NoTransform ELSE transformStart
      /\ controls' = IF selectedObject # Null
                     THEN [Detached(controls) EXCEPT !.mode = "translate"]
                     ELSE IF controls.object # Null THEN Detached(controls) ELSE controls
      /\ UNCHANGED <<nextCmdId, pointerState, lastClick, modalState, pending, catalog, loading>>

\* a saved room: its model is clicked and turned with the gizmo, the room is
\* saved and loaded again, with the catalog entry still there or gone.  The
\* room is chosen with the pointer, so no press on the canvas is going on
SavePointerDown == \E hit \in Hittable : onPointerDown("mouse", 0, <<0, 0>>, hit, "a", NoHit)

SavePointerUp == onPointerUp("mouse", <<0, 0>>, FALSE)

ReloadRoom ==
  /\ hoveredObject = Null
  /\ \E missing \in SUBSET Entries : loadRoomById(collectPlacedFurniture, missing)

NextSave ==
  \/ SavePointerDown
  \/ SavePointerUp
  \/ HistRotateButton
  \/ ControlsMouseDown
  \/ GizmoDrag
  \/ GizmoUp
  \/ ReloadRoom

SpecSave == InitRestored /\ [][NextSave]_vars

\* scene.js clearAllFurniture: removeFurnitureFromScene for every selectable
\* model, the gizmo detached from the one it holds
clearAllFurniture(c) == IF c.object \in Hittable THEN Detached(c) ELSE c

\* the placedFurniture lists of the saved rooms of the house
Rooms == {<<>>, <<FurnitureData(Restored(Identity, Up, DEFAULT_CONTACT_AXIS))>>}

\* loadRoomById from clearAllFurniture to the first await of the furniture
\* loop: the old furniture and the history go, the selection stays until the
\* end of the load.  A room without furniture is loaded to the end
loadRoomBegin(room) ==
  /\ loading = <<>>
  /\ scene' = scene \ Hittable
  /\ selectableObjects' = <<>>
  /\ undoStack' = <<>>
  /\ redoStack' = <<>>
  /\ IF room = <<>>
     THEN /\ loading' = <<>>
          /\ selectedObject' = Null
          /\ transformStart' = IF selectedObject # Null THEN NoTransform ELSE transformStart
          /\ controls' = IF selectedObject # Null
                         THEN [Detached(controls) EXCEPT !.mode = "translate"]
                         ELSE clearAllFurniture(controls)
     ELSE /\ loading' = room
          /\ controls' = clearAllFurniture(controls)
          /\ UNCHANGED <<selectedObject, transformStart>>
  /\ UNCHANGED <<objs, nextCmdId, pointerState, lastClick, modalState, pending, catalog>>

\* one pass of the furniture loop after its awaits: the record's model is
\* restored and added, or skipped when its entry is gone or has no model;
\* after the last record the room scale is applied and the selection dropped
loadRoomNext(hasModel) ==
  /\ loading # <<>>
  /\ LET furniture == Head(loading)
         skipped == furniture.entryId \notin catalog \/ ~hasModel
         first == CHOOSE i \in 1..MaxObjs :
                    /\ objs[ObjNames[i]] = NoObj
                    /\ \A k \in 1..(i - 1) : objs[ObjNames[k]] # NoObj
         model == ObjNames[first]
         last == Tail(loading) = <<>>
         added == IF skipped THEN objs ELSE [objs EXCEPT ![model] = RestoredModel(furniture)]
         sc == IF skipped THEN scene ELSE scene \cup {model}
     IN  /\ skipped \/ \E m \in Objs : objs[m] = NoObj
         /\ scene' = sc
         /\ selectableObjects' = IF skipped THEN selectableObjects
                                 ELSE Append(selectableObjects, model)
         /\ objs' = IF last
                    THEN [m \in Objs |-> IF m \in sc THEN applyRoomScale(added[m]) ELSE added[m]]
                    ELSE added
         /\ IF last
            THEN loading' = <<>> /\ deselectFurniture
            ELSE loading' = Tail(loading) /\ UNCHANGED <<selectedObject, transformStart, controls>>
  /\ UNCHANGED <<undoStack, redoStack, nextCmdId, pointerState, lastClick, modalState,
                 pending, catalog>>

\* main.js closeHouse: the furniture, the history and the selection go, the
\* calendar opens
closeHouse ==
  /\ scene' = scene \ Hittable
  /\ selectableObjects' = <<>>
  /\ undoStack' = <<>>
  /\ redoStack' = <<>>
  /\ selectedObject' = Null
  /\ transformStart' = IF selectedObject # Null THEN NoTransform ELSE transformStart
  /\ controls' = IF selectedObject # Null
                 THEN [Detached(controls) EXCEPT !.mode = "translate"]
                 ELSE clearAllFurniture(controls)
  /\ openModal("calendar-modal")
  /\ UNCHANGED <<objs, nextCmdId, pointerState, lastClick, pending, catalog, loading>>

\* a room switch in a house with a furnished and an empty room: the model of
\* the loaded room is clicked and deleted by key while another room is
\* chosen in the tab bar and its furniture is loaded; undo and redo
LoadBegin == \E room \in Rooms : loadRoomBegin(room)

LoadNext == \E hasModel \in BOOLEAN : loadRoomNext(hasModel)

CloseHouse == activeModal = Null /\ closeHouse

\* loadHouse after its loadRoomById: the calendar and everything over it close
LoadHouseDone ==
  /\ activeModal # Null
  /\ loading = <<>>
  /\ closeAllModals
  /\ ModalManagerOnly

NextSwitch ==
  \/ SavePointerDown
  \/ SavePointerUp
  \/ KeyDown
  \/ UndoRedoKey
  \/ UndoClick
  \/ RedoClick
  \/ LoadBegin
  \/ LoadNext
  \/ CloseHouse
  \/ LoadHouseDone

\* the loaded room holds one model, upright on the level floor
InitRoom ==
  /\ InitRestored
  /\ objs[ObjNames[1]] = Restored(Identity, Up, DEFAULT_CONTACT_AXIS)

SpecSwitch == InitRoom /\ [][NextSwitch]_vars


\* placing after a second click: the floor at "a" or the wall at "c" is
\* clicked, the furniture modal opens, an entry is chosen, and while its model
\* loads the modal is closed by a click outside it and the room is clicked again
SurfaceHits == {[point |-> "a", normal |-> Up], [point |-> "c", normal |-> WallNormal]}

SurfaceClick ==
  \E meshHit \in SurfaceHits : onPointerDown("mouse", 0, <<0, 0>>, Null, "a", meshHit)

NextClick ==
  \/ SurfaceClick
  \/ PlaceGrab
  \/ PlacePointerUp
  \/ PlaceBegin
  \/ PlaceDone
  \/ CloseModal
  \/ UndoClick
  \/ RedoClick

SpecClick == Init /\ [][NextClick]_vars

\* two placements in flight: the furniture modal is open over the clicked
\* floor and the entry is chosen again before the model of the first choice
\* has loaded
StockClick == onPointerDown("mouse", 0, <<0, 0>>, Null, "a", [point |-> "a", normal |-> Up])

StockPointerUp == onPointerUp("mouse", <<0, 0>>, FALSE)

StockBegin == \E entryId \in Entries : placeEntryInScene(entryId)

StockDone == \E call \in pending : placeFurniture(call)

NextStock ==
  \/ StockClick
  \/ PlaceGrab
  \/ StockPointerUp
  \/ StockBegin
  \/ StockDone
  \/ PlaceFail
  \/ KeyDown
  \/ UndoClick
  \/ RedoClick

SpecStock == Init /\ [][NextStock]_vars

\* the gizmo, the keys and the drag on one model: a model is placed on the
\* level floor, clicked, pressed and dragged with the mouse; the gizmo is
\* attached to it by key or by the gizmo menu and the session modal is opened
\* and closed at any time
GizmoMove ==
  /\ Len(normalHistory) < MaxSamples
  /\ \E xy \in ScreenPts, meshHit \in DragHits \cup {NoHit} :
       onPointerMove("mouse", xy, TRUE, meshHit)

NextGizmo ==
  \/ SmoothClick
  \/ PlaceGrab
  \/ GizmoMove
  \/ SpawnPointerUp
  \/ KeyDown
  \/ UndoRedoKey
  \/ GizmoMode
  \/ OpenModal
  \/ CloseModal
  \/ PlaceBegin
  \/ SmoothPlaceDone

SpecGizmo == Init /\ [][NextGizmo]_vars

\* the modal manager alone: modals are opened over one another, closed one by
\* one and closed all at once
OpenAnyModal ==
  /\ Len(modalStack) < MaxModalDepth
  /\ \E modalId \in Modals : openModal(modalId)
  /\ ModalManagerOnly

CloseAllModals == closeAllModals /\ ModalManagerOnly

NextModal ==
  \/ OpenAnyModal
  \/ CloseModal
  \/ CloseAllModals

SpecModal == Init /\ [][NextModal]_vars

\* ------------------------------------------------------------------ claims
Top(stack) == stack[Len(stack)]
Front(stack) == SubSeq(stack, 1, Len(stack) - 1)

\* the steps of the undo and the redo entry points (button, and key with no modal)
UndoStep == UndoClick \/ (activeModal = Null /\ OnUndoRedoKey("z"))
RedoStep == RedoClick \/ (activeModal = Null /\ \E key \in {"Z", "y"} : OnUndoRedoKey(key))

\* C1 (as stated): undoing every Move recorded since a model was placed brings
\* the model back to the position, rotation and scale it had when it was placed
C1_UndoRestoresTransform ==
  \A m \in Objs :
    (/\ Len(undoStack) = 1 /\ undoStack[1].kind = "Place" /\ undoStack[1].model = m
     /\ redoStack # <<>>
     /\ \A i \in DOMAIN redoStack : redoStack[i].kind = "Move" /\ redoStack[i].model = m
     /\ Top(redoStack).from.position = undoStack[1].from.position
     /\ objs[m].position = undoStack[1].from.position
     /\ hoveredObject = Null)
    => TransformOf(objs[m]) = undoStack[1].from

\* C2: the undo stack never holds more than maxHistory commands, and a push
\* onto a full stack drops the oldest command and keeps the others in order
C2_HistoryBound ==
  [][/\ Len(undoStack') <= maxHistory
     /\ (nextCmdId' # nextCmdId /\ Len(undoStack) = maxHistory)
          => /\ Front(undoStack') = Tail(undoStack)
             /\ Top(undoStack').id = nextCmdId]_vars

\* the 51st command was pushed: the first one is gone, the rest are in order
C2_Witness ==
  /\ Len(undoStack) = maxHistory
  /\ \A i \in DOMAIN undoStack : undoStack[i].id = i + 1

\* C3: right after a command is pushed by execute or record, the redo stack
\* is empty
C3_PushClearsRedo == [][nextCmdId' # nextCmdId => redoStack' = <<>>]_vars

\* command 1 was undone, then command 2 was pushed and the redo stack is empty
C3_Witness ==
  /\ Len(undoStack) = 1 /\ undoStack[1].id = 2
  /\ redoStack = <<>>

\* what undoing command c does to the scene, written out per kind of command
UndoneEffect(c) ==
  LET m == c.model
  IN  CASE c.kind = "Place" ->
             /\ scene' = scene \ {m}
             /\ ~includes(selectableObjects', m)
             /\ objs' = objs
        [] c.kind = "Delete" ->
             /\ scene' = scene \cup {m}
             /\ includes(selectableObjects', m)
             /\ TransformOf(objs'[m]) = c.from
        [] c.kind = "Move" ->
             /\ objs' = [objs EXCEPT ![m].position = c.from.position]
             /\ UNCHANGED <<scene, selectableObjects>>
        [] c.kind = "Rotate" ->
             /\ objs' = [objs EXCEPT ![m].rotation = c.from.rotation]
             /\ UNCHANGED <<scene, selectableObjects>>
        [] c.kind = "Scale" ->
             /\ objs' = [objs EXCEPT ![m].scale = c.from.scale]
             /\ UNCHANGED <<scene, selectableObjects>>

\* what running command c again does to the scene
RedoneEffect(c) ==
  LET m == c.model
  IN  CASE c.kind = "Place" ->
             /\ scene' = scene \cup {m}
             /\ includes(selectableObjects', m)
             /\ TransformOf(objs'[m]) = c.from
        [] c.kind = "Delete" ->
             /\ scene' = scene \ {m}
             /\ ~includes(selectableObjects', m)
             /\ objs' = objs
        [] c.kind = "Move" ->
             /\ objs' = [objs EXCEPT ![m].position = c.to.position]
             /\ UNCHANGED <<scene, selectableObjects>>
        [] c.kind = "Rotate" ->
             /\ objs' = [objs EXCEPT ![m].rotation = c.to.rotation]
             /\ UNCHANGED <<scene, selectableObjects>>
        [] c.kind = "Scale" ->
             /\ objs' = [objs EXCEPT ![m].scale = c.to.scale]
             /\ UNCHANGED <<scene, selectableObjects>>

\* C4: undo moves the most recent command from the undo stack to the redo
\* stack and applies its inverse; redo moves the most recently undone command
\* back and applies it; on an empty stack neither changes a stack or an object
C4_UndoRedoStep ==
  [][/\ UndoStep =>
          IF undoStack = <<>>
          THEN UNCHANGED <<objs, scene, selectableObjects, undoStack, redoStack>>
          ELSE /\ undoStack' = Front(undoStack)
               /\ redoStack' = Append(redoStack, Top(undoStack))
               /\ UndoneEffect(Top(undoStack))
     /\ RedoStep =>
          IF redoStack = <<>>
          THEN UNCHANGED <<objs, scene, selectableObjects, undoStack, redoStack>>
          ELSE /\ redoStack' = Front(redoStack)
               /\ undoStack' = Append(undoStack, Top(redoStack))
               /\ RedoneEffect(Top(redoStack))]_vars

\* a Rotate was undone: it is on the redo stack and the model has the rotation
\* it had before the gizmo turned it
C4_Witness ==
  /\ redoStack # <<>>
  /\ Top(redoStack).kind = "Rotate"
  /\ Top(redoStack).from.rotation # Top(redoStack).to.rotation
  /\ objs[Top(redoStack).model].rotation = Top(redoStack).from.rotation

\* C5: a step that executes a command (deletion) has applied it when the
\* command is on the stack; a step that records a Move or a Rotate leaves
\* every transform, the scene and the selectable list as they were, and a
\* recorded Place holds the transform the model has
C5_ExecuteRunsRecordDoesNot ==
  [][nextCmdId' # nextCmdId =>
       /\ undoStack' # <<>>
       /\ Top(undoStack').id = nextCmdId
       /\ Front(undoStack') = IF Len(undoStack) = maxHistory THEN Tail(undoStack)
                              ELSE undoStack
       /\ LET c == Top(undoStack')
          IN  CASE c.kind = "Delete" ->
                     /\ c.model \notin scene'
                     /\ ~includes(selectableObjects', c.model)
                     /\ objs' = objs
                [] c.kind = "Place" ->
                     /\ c.model \in scene'
                     /\ TransformOf(objs'[c.model]) = c.from
                [] OTHER -> UNCHANGED <<objs, scene, selectableObjects>>]_vars

\* a deletion was executed: its command is on top and the model is gone
C5_Witness ==
  /\ undoStack # <<>>
  /\ Top(undoStack).kind = "Delete"
  /\ Top(undoStack).model \notin scene
  /\ redoStack = <<>>

\* pointer p is the one the controller follows (or it follows none)
Follows(p) == activePointerId = Null \/ p = activePointerId

\* the screen distance between a and b is at most DRAG_THRESHOLD_PIXELS
WithinThreshold(a, b) ==
  (b[1] - a[1]) * (b[1] - a[1]) + (b[2] - a[2]) * (b[2] - a[2])
    <= DRAG_THRESHOLD_PIXELS * DRAG_THRESHOLD_PIXELS

Parallel(a, b) == CrossZ(a, b) = 0 /\ a[3] * b[3] >= 0 /\ Dot(a, b) > 0

\* the contact axis of model o, turned by its rotation, points along its
\* surface normal
ContactAligned(o) ==
  Parallel(applyQuaternion(o.rotation, o.contactAxis), o.surfaceNormal)

C8_DragLeavesInverse ==
  [][\A p \in Pointers, xy \in ScreenPts, lighting \in BOOLEAN :
       (/\ isDragging /\ hoveredObject # Null /\ activeModal = Null
        /\ Follows(p)
        /\ <<objs[hoveredObject].position, objs[hoveredObject].rotation>>
             # <<dragStartPosition, drag.dragStartQuaternion>>
        /\ onPointerUp(p, xy, lighting))
       => /\ undoStack' # <<>>
          /\ LET before == CmdUndo(Top(undoStack'),
                                   World(objs', scene', selectableObjects'))
                 o == before.objs[hoveredObject]
             IN  /\ o.position = dragStartPosition
                 /\ o.rotation = drag.dragStartQuaternion]_vars

\* C9: a pointer-cancel of the followed pointer, and a pointer-up of it while
\* a modal is open, leave the controller idle, every transform as it was and
\* both stacks untouched; no pointer-down, move or cancel touches the stacks
C9_AbandonedDrag ==
  [][/\ \/ /\ ~isDragging' /\ hoveredObject' = Null /\ activePointerId' = Null
           /\ UNCHANGED <<objs, scene, selectableObjects, undoStack, redoStack, nextCmdId>>
        \/ ~\E p \in Pointers :
              /\ Follows(p)
              /\ \/ onPointerCancel(p)
                 \/ /\ activeModal # Null
                    /\ \E xy \in ScreenPts, lighting \in BOOLEAN :
                         onPointerUp(p, xy, lighting)
     /\ \/ UNCHANGED <<undoStack, redoStack, nextCmdId>>
        \/ ~(PointerDown \/ PointerMove \/ PointerCancel)]_vars

\* a drag was abandoned: the controller is idle, the model is away from where
\* it was placed and its Place is still the only command ever made
C9_Witness ==
  /\ hoveredObject = Null /\ ~isDragging /\ activePointerId = Null
  /\ nextCmdId = 2 /\ redoStack = <<>>
  /\ Len(undoStack) = 1 /\ undoStack[1].kind = "Place"
  /\ objs[undoStack[1].model].position # undoStack[1].from.position

\* C10 (as stated): while the controller follows a pointer, no pointer-down,
\* move or up of another pointer changes the target, the drag state, the
\* followed pointer or the scratch of the drag
C10_OtherPointersIgnored ==
  [][\/ UNCHANGED pointerState
     \/ activePointerId = Null
     \/ ~\E p \in Pointers \ {activePointerId} :
           \/ \E button \in {0, 2}, xy \in DownPts, hit \in Hittable \cup {Null},
                 meshHit \in ClickHits \cup {NoHit} :
                onPointerDown(p, button, xy, hit, "a", meshHit)
           \/ \E xy \in ScreenPts, rayOk \in BOOLEAN, meshHit \in DragHits \cup {NoHit} :
                onPointerMove(p, xy, rayOk, meshHit)
           \/ \E xy \in ScreenPts, lighting \in BOOLEAN : onPointerUp(p, xy, lighting)]_vars

\* the cosine of the angle between a and b is below 0.966 = 483/500, which
\* covers every angle of 15 degrees and more (cos 15 = 0.96593 < 0.966)
OutOfTolerance(a, b) ==
  \/ Dot(a, b) < 0
  \/ FracLess(Dot(a, b) * Dot(a, b), Norm2(a) * Norm2(b), 483 * 483, 500 * 500)

DragEndEffect(m) ==
  LET from == dragStartPosition
      to == objs[m].position
  IN  /\ IF from # to
         THEN /\ nextCmdId' = nextCmdId + 1
              /\ redoStack' = <<>>
              /\ Front(undoStack') = undoStack
              /\ LET c == Top(undoStack')
                 IN  /\ c.kind = "Move" /\ c.id = nextCmdId /\ c.model = m
                     /\ c.from.position = from /\ c.to.position = to
         ELSE UNCHANGED <<undoStack, redoStack, nextCmdId>>
      /\ ~isDragging' /\ hoveredObject' = Null /\ normalHistory' = <<>>
      /\ activePointerId' = Null /\ mouseDownPosition' = NoVec
      /\ objs' = objs

\* C12 (as stated): every pointer-up of the followed pointer during a drag
\* records one Move (from the position at pointer-down to the position at
\* pointer-up) exactly when the two differ, and leaves the controller idle
C12_DragEndRecordsMove ==
  [][(/\ isDragging /\ hoveredObject # Null /\ ~isDragging'
      /\ \E p \in Pointers, xy \in ScreenPts, lighting \in BOOLEAN :
           Follows(p) /\ onPointerUp(p, xy, lighting))
     => DragEndEffect(hoveredObject)]_vars

\* C12 (amended): the same for every pointer-up of the followed pointer during
\* a drag while no modal is open
C12_DragEndRecordsMoveNoModal ==
  [][(/\ isDragging /\ hoveredObject # Null /\ ~isDragging' /\ activeModal = Null
      /\ \E p \in Pointers, xy \in ScreenPts, lighting \in BOOLEAN :
           Follows(p) /\ onPointerUp(p, xy, lighting))
     => DragEndEffect(hoveredObject)]_vars

\* a drag over the tilted patch has ended: its Move is on top of the Place, it
\* leads from where the model was placed to where it is, the controller is idle
C12_Witness ==
  /\ Len(undoStack) = 2 /\ undoStack[1].kind = "Place" /\ undoStack[2].kind = "Move"
  /\ undoStack[2].from.position = undoStack[1].from.position
  /\ undoStack[2].to.position = objs[undoStack[2].model].position
  /\ undoStack[2].to.position # undoStack[2].from.position
  /\ ~isDragging /\ hoveredObject = Null /\ normalHistory = <<>>

\* C13 (as stated): when a drag move that lands on an accepted surface
\* returns, the model's position is the hit point moved along the smoothed
\* normal by the bounding-box offset of the rotation the same move produced
C13_PositionFromNewRotation ==
  [][(/\ hoveredObject # Null /\ isDragging' /\ objs' # objs
      /\ \E p \in Pointers, xy \in ScreenPts, meshHit \in DragHits :
           /\ CosAtLeast(meshHit.normal, drag.spawnSurfaceNormal, SURFACE_NORMAL_TOLERANCE)
           /\ onPointerMove(p, xy, TRUE, meshHit))
     => LET o == objs'[hoveredObject]
        IN  o.position = OffsetAlong(o.position.pt, o.surfaceNormal, o.rotation)]_vars

\* history h2 is history h1 with normal n arrived: n is last, the normals
\* before it are those of h1 in their order, the oldest one dropped when h1
\* already held NORMAL_HISTORY_SIZE
Arrived(h1, h2, n) ==
  LET dropped == IF Len(h1) = NORMAL_HISTORY_SIZE THEN 1 ELSE 0
  IN  /\ Len(h2) = Len(h1) + 1 - dropped
      /\ h2[Len(h2)] = n
      /\ \A i \in 1..(Len(h2) - 1) : h2[i] = h1[i + dropped]

\* C14: the normal history never holds more than NORMAL_HISTORY_SIZE normals;
\* it is empty whenever no drag is active (so at the start of every drag and
\* whenever the controller is idle); every accepted sample arrives at its end
\* with the earlier ones kept in order and the oldest dropped on overflow; and
\* it changes in no other way than by an arrival or by being emptied
C14_NormalHistoryFifo ==
  [][/\ Len(normalHistory') <= NORMAL_HISTORY_SIZE
     /\ ~isDragging' => normalHistory' = <<>>
     /\ \A meshHit \in SmoothHits :
          (/\ hoveredObject # Null /\ isDragging'
           /\ ~OutOfTolerance(meshHit.normal, drag.spawnSurfaceNormal)
           /\ onPointerMove("mouse", <<6, 0>>, TRUE, meshHit))
          => Arrived(normalHistory, normalHistory', meshHit.normal)
     /\ \/ normalHistory' = normalHistory
        \/ normalHistory' = <<>>
        \/ \E n \in {Up, TiltNormal} : Arrived(normalHistory, normalHistory', n)]_vars

\* the history is full of level-floor samples, and the model's position still
\* carries the tilt the model had one move ago: a sample of the tilted patch
\* has been dropped from the front
C14_Witness ==
  /\ isDragging /\ hoveredObject # Null
  /\ Len(normalHistory) = NORMAL_HISTORY_SIZE
  /\ \A i \in DOMAIN normalHistory : normalHistory[i] = Up
  /\ objs[hoveredObject].position.r # Identity

Level(n) == 100 * n[2] * n[2] > 81 * Norm2(n)

\* C17: on a normal with |y| > 0.9 (the exact (0,1,0) included) the upright
\* correction changes nothing, whatever the rotation is
C17_UprightSkipsLevel ==
  [][\A m \in Objs :
       (Alignable(m) /\ Level(objs[m].surfaceNormal) /\ UprightCall(m))
         => objs' = objs]_vars

\* a model on the tilted patch (|y| = 40/41) whose Y axis lies on the lower
\* side of the patch: off a level surface the correction would turn it
C17_Witness ==
  LET o == objs[ObjNames[1]]
  IN  /\ o.surfaceNormal = TiltNormal
      /\ o.rotation = [f |-> 0, z |-> <<0, -1>>]
      /\ ~ContactAligned(o)

\* axis is the first of the cardinal axes, in their order, whose direction
\* turned by quat has the greatest dot product with n
IsBestAxis(axis, quat, n) ==
  \E i \in DOMAIN CARDINAL_AXES :
    /\ CARDINAL_AXES[i] = axis
    /\ \A j \in DOMAIN CARDINAL_AXES :
         /\ AxisDot(quat, CARDINAL_AXES[j], n) <= AxisDot(quat, axis, n)
         /\ j < i => AxisDot(quat, CARDINAL_AXES[j], n) < AxisDot(quat, axis, n)

\* C18: detectContactAxis returns the cardinal axis with the greatest dot
\* product of its turned direction with the normal, the first one in the
\* order +X,-X,+Y,-Y,+Z,-Z when several are greatest
C18_ResolverPicksFirstBest ==
  [][\A m \in Objs :
       (Alignable(m) /\ DetectCall(m))
         => IsBestAxis(objs'[m].contactAxis, objs[m].rotation, objs[m].surfaceNormal)]_vars

\* on the 45 degree slope the unturned model's +X and +Y are equally good and
\* the resolver has answered +X
C18_Witness ==
  LET o == objs[ObjNames[1]]
  IN  /\ o.surfaceNormal = <<1, 1, 0>>
      /\ o.rotation = Identity
      /\ o.contactAxis = <<1, 0, 0>>
      /\ AxisDot(o.rotation, <<0, 1, 0>>, o.surfaceNormal)
           = AxisDot(o.rotation, <<1, 0, 0>>, o.surfaceNormal)

\* C19 (as stated): the model a successful placeFurniture has just placed has
\* the default contact axis, whatever surface normal it was dropped on
C19_PlacedWithDefaultAxis ==
  [][(/\ nextCmdId' # nextCmdId
      /\ Top(undoStack').kind = "Place")
     => objs'[Top(undoStack').model].contactAxis = DEFAULT_CONTACT_AXIS]_vars

\* C20: a handled pointer-down that hits a placed model with a surface normal
\* leaves that model with the contact axis the resolver gives for the rotation
\* and the surface normal the model has at that moment: the first cardinal
\* axis whose turned direction is closest to the normal
C20_RegrabRederivesAxis ==
  [][\A m \in Objs :
       (/\ hoveredObject' = m /\ activePointerId' # Null /\ activeModal = Null
        /\ objs[m].surfaceNormal # NoVec
        /\ \E p \in Pointers :
             isPrimary(p) /\ onPointerDown(p, 0, <<0, 0>>, m, "a", NoHit))
       => /\ IsBestAxis(objs'[m].contactAxis, objs[m].rotation, objs[m].surfaceNormal)
          /\ objs' = [objs EXCEPT ![m].contactAxis = objs'[m].contactAxis]
          /\ normalHistory' = <<>>]_vars

\* a model placed on the level floor was turned a quarter turn with the gizmo
\* and grabbed again: its contact axis is now +X, the axis that points up
C20_Witness ==
  \E m \in Objs :
    /\ hoveredObject = m /\ activePointerId # Null
    /\ objs[m].surfaceNormal = Up
    /\ objs[m].rotation = [f |-> 0, z |-> <<0, 1>>]
    /\ objs[m].contactAxis = <<1, 0, 0>>

\* C21: a placement whose catalog entry is absent or has no model fails
\* without adding an object to the scene or to the selectable set, without
\* recording a command, and without changing the undo stack, the redo stack
\* or any placed object
C21_FailedPlacementChangesNothing ==
  [][\A call \in pending :
        placeFurnitureFails(call) =>
          /\ scene' = scene
          /\ selectableObjects' = selectableObjects
          /\ undoStack' = undoStack
          /\ redoStack' = redoStack
          /\ nextCmdId' = nextCmdId
          /\ objs' = objs]_vars

\* a placement is pending while a model placed earlier is in the scene and
\* its Place command is on the undo stack
C21_Witness ==
  /\ pending # {}
  /\ scene # {}
  /\ undoStack # <<>>

\* C23: raycastRoomSurface returns a SurfaceHit when the pointer ray meets the
\* room mesh and null when it does not; the fallback to the ground plane
\* y = 0 with normal +Y is left to the caller.  Stated on the handled
\* pointer-downs on empty space: the sampler's result is the mesh hit when
\* there is one and no hit (null) when the ray misses the mesh
C23_NullWithoutIntersection ==
  [][\A p \in {"mouse", "touch1"}, meshHit \in PlaceHits :
        (/\ activeModal = Null
         /\ lastClick' # lastClick
         /\ onPointerDown(p, 0, <<0, 0>>, Null, "a", meshHit))
        => raycastRoomSurface(meshHit) = meshHit]_vars

\* the controller is armed with a target: a handled pointer-down hit a placed
\* model and no drag has begun
ArmedWithTarget == ~isDragging /\ hoveredObject # Null /\ mouseDownPosition # NoVec

\* a drag begins only when armed with a target, by a move of the followed
\* pointer more than DRAG_THRESHOLD_PIXELS away from the pointer-down
DragBeginsArmedPastThreshold ==
  (~isDragging /\ isDragging')
    => /\ ArmedWithTarget
       /\ \E p \in Pointers, xy \in ScreenPts, rayOk \in BOOLEAN,
             meshHit \in DragHits \cup {NoHit} :
            /\ Follows(p)
            /\ ~WithinThreshold(mouseDownPosition, xy)
            /\ onPointerMove(p, xy, rayOk, meshHit)

\* every pointer-up of the followed pointer at most DRAG_THRESHOLD_PIXELS from
\* the pointer-down selects the target, moves nothing and records nothing
ClickSelectsTarget ==
  \A p \in Pointers, xy \in ScreenPts, lighting \in BOOLEAN :
    (/\ Follows(p)
     /\ WithinThreshold(mouseDownPosition, xy)
     /\ onPointerUp(p, xy, lighting))
    => /\ selectedObject' = hoveredObject
       /\ objs' = objs
       /\ UNCHANGED <<scene, selectableObjects, undoStack, redoStack, nextCmdId>>

\* C24 (as stated): dragging is entered only from ArmedWithTarget by a move
\* more than 5 px from the pointer-down; a pointer-up in ArmedWithTarget at
\* most 5 px from the pointer-down selects the target, moves nothing and
\* records no command
C24_ClickVersusDrag ==
  [][/\ DragBeginsArmedPastThreshold
     /\ (ArmedWithTarget /\ hoveredObject' = Null) => ClickSelectsTarget]_vars

\* C24 (amended): the same, the pointer-up selecting only while no modal is
\* open
C24_ClickVersusDragNoModal ==
  [][/\ DragBeginsArmedPastThreshold
     /\ (ArmedWithTarget /\ hoveredObject' = Null /\ activeModal = Null)
          => ClickSelectsTarget]_vars

\* a click selected the placed model: it is where it was placed, the
\* transform remembered for the gizmo is its own, and its Place is the
\* only command ever made
C24_Witness ==
  /\ selectedObject # Null /\ hoveredObject = Null /\ ~isDragging
  /\ activeModal = Null
  /\ transformStart = TransformOf(objs[selectedObject])
  /\ nextCmdId = 2 /\ Len(undoStack) = 1 /\ undoStack[1].kind = "Place"
  /\ objs[selectedObject].position = undoStack[1].from.position

\* the gizmo is being dragged in rotate mode
RotateInteraction == controls.dragging /\ controls.mode = "rotate" /\ controls.object # Null

\* what the end of a gizmo rotation of model m leaves behind: one Rotate from
\* the rotation at the gizmo's mouse-down to the rotation now if the two
\* differ, else no command
RotateEndEffect(m) ==
  LET from == transformStart.rotation
      to == objs[m].rotation
  IN  IF from # to
      THEN /\ nextCmdId' = nextCmdId + 1
           /\ redoStack' = <<>>
           /\ Front(undoStack') = undoStack
           /\ LET c == Top(undoStack')
              IN  /\ c.kind = "Rotate" /\ c.id = nextCmdId /\ c.model = m
                  /\ c.from.rotation = from /\ c.to.rotation = to
      ELSE UNCHANGED <<undoStack, redoStack, nextCmdId>>

\* what deleteSelectedFurniture leaves behind: with a selection one Delete of
\* the selected model on top of the undo stack, the model in neither the scene
\* nor the selectable set and nothing selected; without a selection nothing
DeleteEffect ==
  IF selectedObject # Null
  THEN /\ nextCmdId' = nextCmdId + 1
       /\ redoStack' = <<>>
       /\ Front(undoStack') = undoStack
       /\ LET c == Top(undoStack')
          IN  c.kind = "Delete" /\ c.id = nextCmdId /\ c.model = selectedObject
       /\ selectedObject \notin scene'
       /\ ~includes(selectableObjects', selectedObject)
       /\ selectedObject' = Null
  ELSE UNCHANGED vars

\* the gizmo's mouse-down remembers the rotation of the model it is attached to
RotateStartRemembered ==
  (~controls.dragging /\ controls'.dragging)
    => transformStart'.rotation = objs[controls.object].rotation

\* a gizmo rotation goes on untouched, or ends with RotateEndEffect
RotateRecordedAtEnd ==
  RotateInteraction
    => \/ /\ controls' = controls
          /\ transformStart' = transformStart
          /\ nextCmdId' = nextCmdId
       \/ /\ ~controls'.dragging
          /\ objs' = objs
          /\ RotateEndEffect(controls.object)

\* every call of deleteSelectedFurniture has DeleteEffect
DeleteRecorded ==
  (GizmoDeleteButton \/ (activeModal = Null /\ onKeyDown("delete"))) => DeleteEffect

\* C25 (as stated): a gizmo rotate interaction records exactly one Rotate
\* command, from the rotation at the gizmo's mouse-down to the rotation at its
\* mouse-up, exactly when the rotation changed; deleteSelected with a
\* selection executes exactly one Delete command, after which the model is in
\* neither the scene nor the selectable set and nothing is selected;
\* deleteSelected without a selection changes nothing
C25_RotateAndDeleteCommands ==
  [][RotateStartRemembered /\ RotateRecordedAtEnd /\ DeleteRecorded]_vars

\* C26: no move event of a drag modifies the spawn normal, the drag plane or
\* the grab offset captured at pointer-down, and a move of the drag accepts
\* its hit normal exactly when that normal is within the tolerance of the
\* spawn normal, whatever normal was accepted or smoothed before
C26_SpawnReferenceFixed ==
  [][\A meshHit \in SpawnHits \cup {NoHit} :
        (/\ hoveredObject # Null /\ isDragging'
         /\ onPointerMove("mouse", <<6, 0>>, TRUE, meshHit))
        => /\ drag'.spawnSurfaceNormal = drag.spawnSurfaceNormal
           /\ drag'.dragPlane = drag.dragPlane
           /\ drag'.dragOffset = drag.dragOffset
           /\ (normalHistory' = Append(normalHistory, meshHit.normal))
                <=> (/\ meshHit # NoHit
                     /\ CosAtLeast(meshHit.normal, drag.spawnSurfaceNormal,
                                   SURFACE_NORMAL_TOLERANCE))
           /\ (normalHistory' = normalHistory)
                <=> ~(/\ meshHit # NoHit
                      /\ CosAtLeast(meshHit.normal, drag.spawnSurfaceNormal,
                                    SURFACE_NORMAL_TOLERANCE))]_vars

\* during a drag from the level floor the patch tilted one way was accepted
\* and then the patch tilted the other way, 25.4 degrees from the first
C26_Witness ==
  /\ isDragging /\ hoveredObject # Null
  /\ drag.spawnSurfaceNormal = Up
  /\ normalHistory = <<TiltNormal, TiltBackNormal>>
  /\ drag.lastValidNormal = Up

\* C27: in every reachable state the undo stack and the redo stack together
\* hold at most maxHistory commands, so a redo never leaves more than
\* maxHistory commands on the undo stack
C27_CombinedHistoryBound ==
  /\ Len(undoStack) + Len(redoStack) <= maxHistory
  /\ Len(undoStack) <= maxHistory

\* the history was full, two commands were undone and one of them redone:
\* the stacks hold maxHistory commands between them
C27_Witness ==
  /\ Len(undoStack) = maxHistory - 1
  /\ Len(redoStack) = 1
  /\ Top(redoStack).id = Top(undoStack).id + 1
  /\ nextCmdId > maxHistory + 1

\* C28: no model is twice in selectableObjects, and a model is in
\* selectableObjects exactly when it is in the scene
C28_SelectableMatchesScene ==
  /\ \A i, j \in DOMAIN selectableObjects :
       selectableObjects[i] = selectableObjects[j] => i = j
  /\ {selectableObjects[i] : i \in DOMAIN selectableObjects} = scene

\* the catalog entry of the placed model was deleted: the model is gone from
\* the scene and the selectable set while its Place is still on the undo stack
C28_Witness ==
  /\ scene = {} /\ selectableObjects = <<>>
  /\ Len(undoStack) = 1 /\ undoStack[1].kind = "Place"
  /\ redoStack = <<>>
  /\ objs[undoStack[1].model] # NoObj

\* C29 (as stated): in every state the selected model is null or a member of
\* selectableObjects, also after the Place of the selected model was undone or
\* its Delete redone
C29_SelectionValid ==
  selectedObject = Null \/ includes(selectableObjects, selectedObject)

\* C30 (as stated): whenever a Move or a Rotate command is recorded, its model
\* is in selectableObjects at that moment, also when undo or redo ran between
\* the pointer-down and the pointer-up of the drag
C30_RecordedForLiveObjects ==
  [][(nextCmdId' # nextCmdId /\ Top(undoStack').kind \in {"Move", "Rotate"})
       => includes(selectableObjects, Top(undoStack').model)]_vars

\* the models restored from the snapshot of the current state, entries in
\* missing being gone from the catalog: every snapshotted model has its
\* restored model, with the same entry, position, rotation, scale, surface
\* normal, contact axis and base scale
RoundTrip(missing) ==
  LET after == Reloaded(collectPlacedFurniture, missing)
  IN  \A i \in DOMAIN selectableObjects :
        /\ i \in DOMAIN after.sel
        /\ LET a == objs[selectableObjects[i]]
               b == after.objs[after.sel[i]]
           IN  /\ b.entryId = a.entryId
               /\ b.position = a.position
               /\ b.rotation = a.rotation
               /\ b.scale = a.scale
               /\ b.surfaceNormal = a.surfaceNormal
               /\ b.contactAxis = a.contactAxis
               /\ b.baseScale = a.baseScale

C31_EntryRemovalFinal ==
  [][(UndoStep \/ RedoStep) =>
       \A m \in Objs :
         (\/ (m \in scene' /\ m \notin scene)
          \/ (includes(selectableObjects', m) /\ ~includes(selectableObjects, m)))
           => objs'[m].entryId \in catalog]_vars

\* a load or a close of the house comes to its end
SwitchCompletes ==
  \/ closeHouse
  \/ (loading' = <<>> /\ (loading # <<>> \/ \E room \in Rooms : loadRoomBegin(room)))

\* C32 (state at completion): when loadRoomById or closeHouse completes, the
\* undo and the redo stack are empty and nothing is selected, whatever events
\* were handled while the furniture of the room was loaded
C32_SwitchResetsHistory ==
  [][SwitchCompletes =>
       undoStack' = <<>> /\ redoStack' = <<>> /\ selectedObject' = Null]_vars

\* C33: the position and the surface normal placeFurniture gives a new model
\* come from the same surface hit
C33_PlacedFromOneClick ==
  [][\A call \in pending :
       placeFurniture(call) =>
         \A m \in Objs :
           (objs[m] = NoObj /\ objs'[m] # NoObj) =>
             \E hit \in SurfaceHits :
               /\ objs'[m].position = PointOnly(hit.point)
               /\ objs'[m].surfaceNormal = hit.normal]_vars

\* C34: placeEntryInScene adds an instance of an entry only while the
\* available quantity less the instances of the entry already in the scene is
\* greater than zero at the moment the instance is added
C34_StockNotExceeded ==
  [][\A call \in pending :
       placeFurniture(call) =>
         getBatchAvailability(call.entryId, getPlacedCountForEntry(call.entryId)) > 0]_vars

\* the gizmo is attached to the model the followed pointer went down on
GizmoOnTarget ==
  /\ hoveredObject # Null
  /\ mouseDownPosition # NoVec
  /\ activeModal = Null
  /\ controls.object = hoveredObject

\* C35: while the gizmo is attached to the model under the pointer, a move
\* past the threshold neither enters Dragging nor changes the model, and the
\* pointer-up that follows records no Move command
C35_GizmoBlocksDrag ==
  [][/\ \A xy \in ScreenPts, meshHit \in DragHits \cup {NoHit} :
          (/\ GizmoOnTarget
           /\ PastThreshold(mouseDownPosition, xy)
           /\ onPointerMove("mouse", xy, TRUE, meshHit))
            => ((isDragging' => isDragging) /\ objs' = objs)
     /\ \A xy \in ScreenPts :
          (GizmoOnTarget /\ onPointerUp("mouse", xy, FALSE))
            => UNCHANGED <<undoStack, redoStack, objs>>]_vars

\* a canvas pointer-down or pointer-move, or one of the keyboard shortcuts
GatedEvent ==
  \/ \E p \in Pointers, button \in {0, 2}, xy \in DownPts :
       \/ \E hit \in Hittable : onPointerDown(p, button, xy, hit, "a", NoHit)
       \/ \E meshHit \in ClickHits : onPointerDown(p, button, xy, Null, "a", meshHit)
  \/ \E p \in Pointers, xy \in ScreenPts, rayOk \in BOOLEAN, meshHit \in DragHits \cup {NoHit} :
       onPointerMove(p, xy, rayOk, meshHit)
  \/ \E key \in Keys : onKeyDown(key)
  \/ \E key \in UndoRedoKeys : OnUndoRedoKey(key)

\* C36: while a modal is open, a pointer-down, a pointer-move and the keys g,
\* r, delete, escape, ctrl+z and ctrl+y change no placed model, leave the
\* selection, start no drag and leave the undo and the redo stack unchanged
C36_ModalGating ==
  [][(activeModal # Null /\ GatedEvent) =>
       UNCHANGED <<objs, scene, selectableObjects, selectedObject, isDragging,
                   undoStack, redoStack>>]_vars

\* a modal is open over a selected model that the pointer is pressed on, with
\* a command to undo
C36_Witness ==
  /\ activeModal # Null
  /\ selectedObject # Null
  /\ hoveredObject = selectedObject
  /\ mouseDownPosition # NoVec
  /\ undoStack # <<>>

\* C37: after any sequence of openModal, closeModal and closeAllModals the
\* active modal, if there is one, is not hidden; closeModal makes the modal
\* covered last the active one; after closeAllModals no modal is active and
\* the stack is empty
C37_ModalStackConsistent ==
  [][/\ activeModal' # Null => activeModal' \notin hiddenModals'
     /\ (closeModal /\ activeModal # Null /\ modalStack # <<>>) =>
          (activeModal' = Top(modalStack) /\ modalStack' = Front(modalStack))
     /\ closeAllModals => (activeModal' = Null /\ modalStack' = <<>>)]_vars

====
